---------------------------- MODULE Spec2Model ----------------------------
(***************************************************************************)
(* A model of the pcgrandom generators: the LCG state machine, the three   *)
(* output permutations, the affine advance, seeding, the bounded integer   *)
(* sampler and the save/restore of state.                                  *)
(*                                                                         *)
(* The source works on 64-bit and 128-bit states with 32-bit and 64-bit    *)
(* output words.  TLC's integers have 32 bits, so the model keeps the      *)
(* shape of the source arithmetic (every "& mask" is a reduction modulo a  *)
(* power of two, every shift a division or multiplication by one) at a     *)
(* scaled width: an output word has OutputBits = 2^LogOutputBits bits and  *)
(* the state has StateBits = 2 * OutputBits bits, the ratio of every       *)
(* variant of the source.  Shift amounts of the output functions are       *)
(* written as the functions of the widths that give the source's numbers   *)
(* at the source's widths.                                                 *)
(***************************************************************************)
EXTENDS Integers, Sequences, FiniteSets, TLC

(***************************************************************************)
(* Bounds of the model.                                                    *)
(***************************************************************************)
\* log2 of the number of bits of an output word (source: 5 and 6).
LogOutputBits == 2
\* Integer seeds offered to constructors and seed(): -MaxSeed .. MaxSeed.
MaxSeed == 1
\* Sequence selectors offered to constructors: None and 0 .. MaxSequence.
MaxSequence == 1
\* Multipliers offered to constructors: None and 1 + 4k for
\* k in 0 .. MaxMultiplierIndex.
MaxMultiplierIndex == 1
\* Operations performed on one generator after its construction.
MaxCalls == 2
\* Jump distances offered to advance/jumpahead: -MaxJump .. MaxJump and a few
\* distances derived from the period.
MaxJump == 2
\* Longest run of single steps the reference iteration StepN is asked for.
MaxRefSteps == 300
\* Largest argument offered to _randbelow, and largest bit count offered to
\* getrandbits.
MaxN == 7
MaxBits == 5
\* Most words one _randbelow call may draw before the model stops following it.
MaxDraws == 3
\* Calls made by the two generators together when states are saved and
\* restored.
MaxStateCalls == 4
\* Largest absolute value of an argument of randrange, randint and of a signed
\* getrandbits.
MaxRange == 2
\* Longest list shuffled or sampled from.
MaxList == 3

\* Width in bits of the words of the arbitrary word stream that feeds the
\* _randbelow call followed on its own (output_bits of that call).
SamplerBits == 2

(***************************************************************************)
(* Fixed-width arithmetic.                                                 *)
(***************************************************************************)
OutputBits == 2 ^ LogOutputBits
StateBits == 2 * OutputBits
\* 2**output_bits and 2**state_bits; the masks of the source are these - 1.
WordModulus == 2 ^ OutputBits
Modulus == 2 ^ StateBits
HalfPeriod == Modulus \div 2

\* Python's "x & mask" for mask = 2**bits - 1, also for negative x.
Mask(x, bits) == x % (2 ^ bits)
\* Python's "x >> k" and "x << k" for x >= 0.
Shr(x, k) == x \div (2 ^ k)
Shl(x, k) == x * (2 ^ k)

\* Bitwise exclusive or and inclusive or of two naturals.
RECURSIVE Xor(_, _)
Xor(x, y) ==
    IF x = 0 THEN y
    ELSE IF y = 0 THEN x
    ELSE (((x % 2) + (y % 2)) % 2) + 2 * Xor(x \div 2, y \div 2)

RECURSIVE Or(_, _)
Or(x, y) ==
    IF x = 0 THEN y
    ELSE IF y = 0 THEN x
    ELSE (IF x % 2 = 1 \/ y % 2 = 1 THEN 1 ELSE 0) + 2 * Or(x \div 2, y \div 2)

\* "x * y & m" for 0 <= x, y < 2**state_bits.  The product is formed from
\* the two halves of x so that no intermediate value leaves TLC's integers.
MulMask(x, y) ==
    LET xl == x % WordModulus
        xh == x \div WordModulus
    IN  (xl * y + ((xh * y) % WordModulus) * WordModulus) % Modulus

(***************************************************************************)
(* The LCG state machine and the affine advance.                           *)
(***************************************************************************)
\* self._state * a + c & m
step(a, c, s) == (MulMask(s, a) + c) % Modulus

\* format(n, "b") for n >= 0: the binary digits of n, most significant first.
RECURSIVE format_b(_)
format_b(n) == IF n < 2 THEN <<n>> ELSE Append(format_b(n \div 2), n % 2)

\* AdvanceLoop with the squaring step computing cn * an and leaving out
\* "+ cn".
RECURSIVE AdvanceLoop_NoCarry(_, _, _, _, _, _)
AdvanceLoop_NoCarry(a, c, bits, i, an, cn) ==
    IF i > Len(bits) THEN <<an, cn>>
    ELSE LET an1 == MulMask(an, an)
             cn1 == MulMask(an, cn)
         IN  IF bits[i] = 1
             THEN AdvanceLoop_NoCarry(a, c, bits, i + 1,
                                      MulMask(a, an1), (MulMask(a, cn1) + c) % Modulus)
             ELSE AdvanceLoop_NoCarry(a, c, bits, i + 1, an1, cn1)

\* The loop of advance: an, cn after the bits from position i on.
RECURSIVE AdvanceLoop(_, _, _, _, _, _)
AdvanceLoop(a, c, bits, i, an, cn) ==
    IF i > Len(bits) THEN <<an, cn>>
    ELSE LET an1 == MulMask(an, an)
             cn1 == (MulMask(an, cn) + cn) % Modulus
         IN  IF bits[i] = 1
             THEN AdvanceLoop(a, c, bits, i + 1,
                              MulMask(a, an1), (MulMask(a, cn1) + c) % Modulus)
             ELSE AdvanceLoop(a, c, bits, i + 1, an1, cn1)

\* advance: n is reduced modulo the period first.
advance(a, c, s, n) ==
    LET acc == AdvanceLoop(a, c, format_b(Mask(n, StateBits)), 1, 1, 0)
    IN  (MulMask(s, acc[1]) + acc[2]) % Modulus

(***************************************************************************)
(* Rotations and the three output permutations.                            *)
(***************************************************************************)
\* The right shift alone: the bits shifted out are lost.
_rotate_shift_only(v, r) ==
    Mask(Shr(Mask(v, OutputBits), r), OutputBits)

\* core_generators._rotate32 / _rotate64 (and the copy in pcg_xsl_rr_v0):
\* (v & _mask) * _multiplier >> r & _mask, with _multiplier = 2**bits + 1.
_rotate(v, r) ==
    Mask(Shr(Mask(v, OutputBits) * (WordModulus + 1), r), OutputBits)

\* pcg_xsh_rr_v0._rotate32: (v >> r | v << (32-r)) & _UINT32_MASK.
_rotate32_v0(v, r) ==
    Mask(Or(Shr(v, r), Shl(v, OutputBits - r)), OutputBits)

\* Bits of the state that select the rotation: 5 of 64, 6 of 128.
RotBits == LogOutputBits
\* XSH-RR: state ^ (state >> 18), >> 27, rotated by state >> 59.
XshRrXorShift == (RotBits + OutputBits) \div 2
XshRrDrop == StateBits - OutputBits - RotBits
XshRrRotShift == StateBits - RotBits
\* XSH-RS: state ^ (state >> 22), >> (22 + (state >> 61)); 3 selecting bits.
XshRsBits == (LogOutputBits + 1) \div 2
XshRsXorShift == XshRsBits + (OutputBits + 2 ^ XshRsBits - 1) \div 2
XshRsDrop == StateBits - OutputBits - XshRsBits - (2 ^ XshRsBits - 1)
XshRsSelShift == StateBits - XshRsBits
\* XSL-RR: state ^ (state >> 64), rotated by state >> 122.
XslRrXorShift == OutputBits
XslRrRotShift == StateBits - RotBits

\* xsh_rr_64_32._output
xsh_rr_output(state) ==
    _rotate(Shr(Xor(state, Shr(state, XshRrXorShift)), XshRrDrop),
            Shr(state, XshRrRotShift))

\* "state >> 59": the rotation amount of XSH-RR.
xsh_rr_rotation(state) == Shr(state, XshRrRotShift)
\* "state >> 61": the extra shift of XSH-RS.
xsh_rs_shift(state) == Shr(state, XshRsSelShift)
\* "state >> 122": the rotation amount of XSL-RR.
xsl_rr_rotation(state) == Shr(state, XslRrRotShift)

\* The XSH-RS output without its final "& _mask".
xsh_rs_output_unmasked(state) ==
    Shr(Xor(state, Shr(state, XshRsXorShift)),
        XshRsDrop + Shr(state, XshRsSelShift))

\* xsh_rs_64_32._output and PCG_XSH_RS_V0._get_output
xsh_rs_output(state) ==
    Mask(Shr(Xor(state, Shr(state, XshRsXorShift)),
             XshRsDrop + Shr(state, XshRsSelShift)), OutputBits)

\* xsl_rr_128_64._output
xsl_rr_output(state) ==
    _rotate(Xor(state, Shr(state, XslRrXorShift)), Shr(state, XslRrRotShift))

(***************************************************************************)
(* The generator classes.  A generator is a record                         *)
(*   [cls, multiplier, increment, state, gauss_next].                      *)
(***************************************************************************)
\* The classes of core_generators.py, named by their "name" attribute.
CoreClasses == {"xsh_rr_64_32", "xsh_rs_64_32", "xsl_rr_128_64"}
\* The Random-like classes, named by their class name.
RandomClasses == {"PCG_XSH_RR_V0", "PCG_XSH_RS_V0", "PCG_XSL_RR_V0"}
Classes == CoreClasses \cup RandomClasses

\* An optional argument: <<>> is None (argument omitted), <<v>> is the value v.
None == <<>>
Some(v) == <<v>>

\* _output_previous of the core classes.
_output_previous(cls) == cls \in {"xsh_rr_64_32", "xsh_rs_64_32"}

\* _output of the core classes.
_output(cls, state) ==
    CASE cls = "xsh_rr_64_32" -> xsh_rr_output(state)
      [] cls = "xsh_rs_64_32" -> xsh_rs_output(state)
      [] cls = "xsl_rr_128_64" -> xsl_rr_output(state)

\* _pcg_core.__next__: <<output word, new state>>.
core_next(cls, a, c, s) ==
    IF _output_previous(cls)
    THEN <<_output(cls, s), step(a, c, s)>>
    ELSE LET s1 == step(a, c, s) IN <<_output(cls, s1), s1>>

\* PCG_XSH_RR_V0._next_word: <<output word, new state>>.
_next_word(a, c, state) ==
    LET output_word == Mask(Shr(Xor(state, Shr(state, XshRrXorShift)), XshRrDrop),
                            OutputBits)
        output_shift == Shr(state, XshRrRotShift)
        new_state == Mask(MulMask(state, a) + c, StateBits)
    IN  <<_rotate32_v0(output_word, output_shift), new_state>>

\* The LCG step without its final reduction.
_advance_state_unmasked(a, c, state) == MulMask(state, a) + c

\* PCGCommon._advance_state
_advance_state(a, c, state) == Mask(MulMask(state, a) + c, StateBits)

\* PCG_XSH_RS_V0._next_output: <<output word, new state>>.
xsh_rs_next_output(a, c, state) ==
    <<xsh_rs_output(state), _advance_state(a, c, state)>>

\* xsl_rr_128_64.__next__ computing the output before the step.
xsl_rr_next_output_first(a, c, state) ==
    <<_rotate(Xor(state, Shr(state, XslRrXorShift)), Shr(state, XslRrRotShift)),
      Mask(MulMask(state, a) + c, StateBits)>>

\* pcg_xsl_rr_v0.xsl_rr_128_64.__next__: <<output word, new state>>.
xsl_rr_next(a, c, state) ==
    LET s1 == Mask(MulMask(state, a) + c, StateBits)
    IN  <<_rotate(Xor(s1, Shr(s1, XslRrXorShift)), Shr(s1, XslRrRotShift)), s1>>

\* The next output word of a generator of any class: <<word, new state>>.
NextOutput(g) ==
    CASE g.cls \in CoreClasses ->
            core_next(g.cls, g.multiplier, g.increment, g.state)
      [] g.cls = "PCG_XSH_RR_V0" -> _next_word(g.multiplier, g.increment, g.state)
      [] g.cls = "PCG_XSH_RS_V0" ->
            xsh_rs_next_output(g.multiplier, g.increment, g.state)
      [] g.cls = "PCG_XSL_RR_V0" -> xsl_rr_next(g.multiplier, g.increment, g.state)

(***************************************************************************)
(* Seeding and construction.                                               *)
(***************************************************************************)
\* The low 16 bits of the default parameters of the source, which the model
\* reduces to the scaled state width:
\*   6364136223846793005 and 1442695040888963407 (Knuth's MMIX LCG),
\*   47026247687942121848144207491837523525 and
\*   117397592171526113268558934119004209487 (128-bit generator).
MMIX_MULTIPLIER_LOW == 32557
MMIX_INCREMENT_LOW == 33103
XSL_MULTIPLIER_LOW == 63045
XSL_INCREMENT_LOW == 33103

_default_multiplier(cls) ==
    IF cls \in {"xsl_rr_128_64", "PCG_XSL_RR_V0"}
    THEN Mask(XSL_MULTIPLIER_LOW, StateBits)
    ELSE Mask(MMIX_MULTIPLIER_LOW, StateBits)

_default_increment(cls) ==
    IF cls \in {"xsl_rr_128_64", "PCG_XSL_RR_V0"}
    THEN Mask(XSL_INCREMENT_LOW, StateBits)
    ELSE Mask(MMIX_INCREMENT_LOW, StateBits)

\* An integer seed reduced by dropping its sign.
seed_from_integer_like_abs(obj, bits) ==
    (IF obj < 0 THEN -obj ELSE obj) % (2 ^ bits)

\* seeding.seed_from_integer_like and the integer branch of
\* pcg_common.seed_from_object: operator.index(obj) & ~(~0 << bits).
seed_from_integer_like(obj, bits) == Mask(obj, bits)

\* _pcg_core.seed without the step that precedes the addition of the seed.
core_seed_one_step(a, c, iseed) == step(a, c, Mask(iseed, StateBits))

\* _pcg_core.seed: the state after seeding with iseed.
core_seed(a, c, iseed) ==
    LET s0 == 0
        s1 == step(a, c, s0)
        s2 == Mask(s1 + iseed, StateBits)
    IN  step(a, c, s2)

\* PCGCommon._set_state_from_seed, where _next_output is that of the class
\* (its returned word is dropped): the state after seeding.
_set_state_from_seed(cls, a, c, seed0) ==
    LET seed == Mask(seed0, StateBits)
        g0 == [cls |-> cls, multiplier |-> a, increment |-> c, state |-> 0,
               gauss_next |-> None]
        s1 == NextOutput(g0)[2]
        s2 == Mask(s1 + seed, StateBits)
    IN  NextOutput([g0 EXCEPT !.state = s2])[2]

\* PCG_XSH_RR_V0._set_state_from_seed: the state after seeding.
_set_state_from_seed_v0(a, c, seed0) ==
    LET seed == Mask(seed0, StateBits)
        s1 == _next_word(a, c, 0)[2]
        s2 == Mask(s1 + seed, StateBits)
    IN  _next_word(a, c, s2)[2]

\* _pcg_core.__init__ accepting every odd multiplier.
core_parameters_odd(cls, sequence, multiplier) ==
    LET a == IF multiplier = None THEN _default_multiplier(cls)
             ELSE Mask(multiplier[1], StateBits)
        c == IF sequence = None THEN _default_increment(cls)
             ELSE Mask(2 * sequence[1] + 1, StateBits)
    IN  [ok |-> (a % 2 = 1), multiplier |-> a, increment |-> c]

\* The multiplier and increment chosen by _pcg_core.__init__ and
\* _pcg_factory.__init__ from the optional sequence and multiplier.
core_parameters(cls, sequence, multiplier) ==
    LET a == IF multiplier = None THEN _default_multiplier(cls)
             ELSE Mask(multiplier[1], StateBits)
        c == IF sequence = None THEN _default_increment(cls)
             ELSE Mask(2 * sequence[1] + 1, StateBits)
    IN  [ok |-> (a % 4 = 1), multiplier |-> a, increment |-> c]

\* The factories' __call__ after __init__: from_state with state 0, then
\* seed(seed).  ok is FALSE when __init__ raises ValueError.
core_construct(cls, seed, sequence, multiplier) ==
    LET p == core_parameters(cls, sequence, multiplier)
    IN  [ok |-> p.ok,
         gen |-> [cls |-> cls, multiplier |-> p.multiplier,
                  increment |-> p.increment,
                  state |-> core_seed(p.multiplier, p.increment, seed),
                  gauss_next |-> None]]

\* PCGCommon.seed with an integer seed: new state; gauss_next becomes None.
common_seed(g, seed) ==
    [g EXCEPT !.state = _set_state_from_seed(g.cls, g.multiplier, g.increment,
                                             seed_from_integer_like(seed, StateBits)),
              !.gauss_next = None]

\* PCGCommon.__init__ (PCG_XSH_RS_V0) with an integer seed.
common_construct(cls, seed, sequence, multiplier) ==
    LET a == Mask(IF multiplier = None THEN _default_multiplier(cls)
                  ELSE multiplier[1], StateBits)
        c == IF sequence = None THEN _default_increment(cls)
             ELSE Mask(2 * Mask(sequence[1], StateBits) + 1, StateBits)
        g0 == [cls |-> cls, multiplier |-> a, increment |-> c, state |-> 0,
               gauss_next |-> None]
    IN  [ok |-> (a % 4 = 1), gen |-> common_seed(g0, seed)]

\* pcg_xsl_rr_v0.xsl_rr_128_64.initial_state with an integer seed.
initial_state(cls, seed, sequence, multiplier) ==
    LET a == IF multiplier = None THEN _default_multiplier(cls)
             ELSE Mask(multiplier[1], StateBits)
        ok == multiplier = None \/ a % 4 = 1
        c == IF sequence = None THEN _default_increment(cls)
             ELSE Mask(2 * sequence[1] + 1, StateBits)
        iseed == seed_from_integer_like(seed, StateBits)
        s0 == Mask(c + iseed, StateBits)
        s1 == Mask(MulMask(s0, a) + c, StateBits)
    IN  [ok |-> ok, multiplier |-> a, increment |-> c, state |-> s1]

\* The distribution state of PCG_XSL_RR_V0: gauss_next.
_initial_distribution_state == None
_get_distribution_state(g) == g.gauss_next
_set_distribution_state(g, distribution_state) ==
    [g EXCEPT !.gauss_next = distribution_state]

\* PCG_XSL_RR_V0.__init__: initial_state, from_state, and the initial
\* distribution state.
xsl_construct(cls, seed, sequence, multiplier) ==
    LET i == initial_state(cls, seed, sequence, multiplier)
    IN  [ok |-> i.ok,
         gen |-> _set_distribution_state(
                     [cls |-> cls, multiplier |-> i.multiplier,
                      increment |-> i.increment, state |-> i.state,
                      gauss_next |-> None],
                     _initial_distribution_state)]

\* PCG_XSH_RR_V0.seed with an integer seed.  random.Random.seed, which the
\* class overrides, is also what resets gauss_next in the base class; the
\* override does not.
v0_seed(g, seed) ==
    [g EXCEPT !.state = _set_state_from_seed_v0(g.multiplier, g.increment, seed)]

\* PCG_XSH_RR_V0.__init__(seed, sequence=0): there is no multiplier argument
\* and an omitted sequence is 0.  random.Random.__init__ calls seed(seed) and
\* sets gauss_next to None.
v0_construct(cls, seed, sequence) ==
    LET seq == Mask(IF sequence = None THEN 0 ELSE sequence[1], StateBits)
        c == Mask(2 * seq + Mask(MMIX_INCREMENT_LOW, StateBits), StateBits)
        g0 == [cls |-> cls, multiplier |-> Mask(MMIX_MULTIPLIER_LOW, StateBits),
               increment |-> c, state |-> 0, gauss_next |-> None]
    IN  [ok |-> TRUE, gen |-> v0_seed(g0, seed)]

\* Construction of a generator of class cls from (seed, sequence, multiplier).
Construct(cls, seed, sequence, multiplier) ==
    CASE cls \in CoreClasses -> core_construct(cls, seed, sequence, multiplier)
      [] cls = "PCG_XSH_RS_V0" -> common_construct(cls, seed, sequence, multiplier)
      [] cls = "PCG_XSL_RR_V0" -> xsl_construct(cls, seed, sequence, multiplier)
      [] cls = "PCG_XSH_RR_V0" -> v0_construct(cls, seed, sequence)

\* The constructors step by step.  A seed argument is <<"int", v>> for the
\* integer v, <<"none", 0>> for None (the seed is then read from the system's
\* entropy, here the value `entropy`) or <<"bad", 0>> for an object no seed
\* can be made from.  The outcome of a construction is
\*   [gen, steps, err]:
\* the generator built (Unbuilt when the constructor raises), the arguments
\* read and the state computed, in order, and the exception raised.
Unbuilt ==
    [cls |-> "unbuilt", multiplier |-> 0, increment |-> 0, state |-> 0,
     gauss_next |-> None]

Built(gen, steps, err) == [gen |-> gen, steps |-> steps, err |-> err]

\* seed_from_object / PCGCommon.seed / PCG_XSH_RR_V0.seed reading the seed.
seed_from_object(seedobj, entropy) ==
    CASE seedobj[1] = "none" ->
            [err |-> "", value |-> entropy, steps |-> <<"entropy">>]
      [] seedobj[1] = "int" ->
            [err |-> "", value |-> seedobj[2], steps |-> <<"seed">>]
      [] seedobj[1] = "bad" ->
            [err |-> "TypeError", value |-> 0, steps |-> <<"seed">>]

\* _pcg_core.seed(iseed) adds iseed to the state: only an integer will do.
core_seed_read(seedobj) ==
    IF seedobj[1] = "int"
    THEN [err |-> "", value |-> seedobj[2], steps |-> <<"state", "seed">>]
    ELSE [err |-> "TypeError", value |-> 0, steps |-> <<"state", "seed">>]

\* factory(sequence, multiplier)(seed) of the core classes.
core_new(cls, seedobj, sequence, multiplier) ==
    LET p == core_parameters(cls, sequence, multiplier)
        r == core_seed_read(seedobj)
    IN  IF ~p.ok THEN Built(Unbuilt, <<"multiplier">>, "ValueError")
        ELSE IF r.err # ""
        THEN Built(Unbuilt, <<"multiplier", "sequence">> \o r.steps, r.err)
        ELSE Built(core_construct(cls, r.value, sequence, multiplier).gen,
                   <<"multiplier", "sequence">> \o r.steps, "")

\* PCGCommon.__init__(seed, sequence, multiplier)
common_new(cls, seedobj, sequence, multiplier, entropy) ==
    LET c == common_construct(cls, 0, sequence, multiplier)
        r == seed_from_object(seedobj, entropy)
    IN  IF ~c.ok THEN Built(Unbuilt, <<"multiplier", "sequence">>, "ValueError")
        ELSE IF r.err # ""
        THEN Built(Unbuilt, <<"multiplier", "sequence">> \o r.steps, r.err)
        ELSE Built(common_construct(cls, r.value, sequence, multiplier).gen,
                   <<"multiplier", "sequence">> \o r.steps \o <<"state">>, "")

\* PCG_XSL_RR_V0.__init__(seed, sequence, multiplier), through
\* xsl_rr_128_64.initial_state.
xsl_new(cls, seedobj, sequence, multiplier, entropy) ==
    LET c == xsl_construct(cls, 0, sequence, multiplier)
        r == seed_from_object(seedobj, entropy)
    IN  IF ~c.ok THEN Built(Unbuilt, <<"multiplier">>, "ValueError")
        ELSE IF r.err # ""
        THEN Built(Unbuilt, <<"multiplier", "sequence">> \o r.steps, r.err)
        ELSE Built(xsl_construct(cls, r.value, sequence, multiplier).gen,
                   <<"multiplier", "sequence">> \o r.steps \o <<"state">>, "")

\* PCG_XSH_RR_V0.__init__(seed, sequence): no multiplier is taken.
v0_new(cls, seedobj, sequence, entropy) ==
    LET r == seed_from_object(seedobj, entropy)
    IN  IF r.err # "" THEN Built(Unbuilt, <<"sequence">> \o r.steps, r.err)
        ELSE Built(v0_construct(cls, r.value, sequence).gen,
                   <<"sequence">> \o r.steps \o <<"state">>, "")

\* The constructor of class cls.
NewOf(cls, seedobj, sequence, multiplier, entropy) ==
    CASE cls \in CoreClasses -> core_new(cls, seedobj, sequence, multiplier)
      [] cls = "PCG_XSH_RS_V0" ->
            common_new(cls, seedobj, sequence, multiplier, entropy)
      [] cls = "PCG_XSL_RR_V0" -> xsl_new(cls, seedobj, sequence, multiplier, entropy)
      [] cls = "PCG_XSH_RR_V0" -> v0_new(cls, seedobj, sequence, entropy)

(***************************************************************************)
(* Jumping, and the draws built on the word stream.  An operation on a     *)
(* generator g gives an outcome                                            *)
(*   [gen, result, words, err]:                                            *)
(* the generator after the call, the value returned, the number of output  *)
(* words drawn, and the exception raised ("" when the call returns).       *)
(***************************************************************************)
Outcome(g, result, words, err) ==
    [gen |-> g, result |-> result, words |-> words, err |-> err]

\* jumpahead without "n &= m": format(n, "b") of a negative n is a "-" and
\* the digits of -n, and the loop takes the "-" for a zero bit.
jumpahead_unreduced(a, c, s, n) ==
    LET acc == AdvanceLoop(a, c, format_b(IF n < 0 THEN -n ELSE n), 1, 1, 0)
    IN  Mask(MulMask(s, acc[1]) + acc[2], StateBits)

\* PCGCommon.jumpahead (the same loop as _pcg_core.advance).
jumpahead(a, c, s, n) ==
    LET acc == AdvanceLoop(a, c, format_b(Mask(n, StateBits)), 1, 1, 0)
    IN  Mask(MulMask(s, acc[1]) + acc[2], StateBits)

\* PCG_XSH_RR_V0.jumpahead
jumpahead_v0(a, c, s, n) ==
    LET acc == AdvanceLoop(a, c, format_b(Mask(n, StateBits)), 1, 1, 0)
    IN  Mask(MulMask(s, acc[1]) + acc[2], StateBits)

\* xsl_rr_128_64.advance with the mask m one bit short (2**127 - 1).
xsl_rr_advance_shortmask(a, c, s, n) ==
    LET acc == AdvanceLoop(a, c, format_b(Mask(n, StateBits - 1)), 1, 1, 0)
    IN  Mask(MulMask(s, acc[1]) + acc[2], StateBits)

\* pcg_xsl_rr_v0.xsl_rr_128_64.advance, which PCG_XSL_RR_V0.jumpahead calls.
xsl_rr_advance(a, c, s, n) ==
    LET acc == AdvanceLoop(a, c, format_b(Mask(n, StateBits)), 1, 1, 0)
    IN  Mask(MulMask(s, acc[1]) + acc[2], StateBits)

\* advance / jumpahead of a generator of any class.
Jump(g, n) ==
    LET s == CASE g.cls \in CoreClasses ->
                    advance(g.multiplier, g.increment, g.state, n)
              [] g.cls = "PCG_XSH_RS_V0" ->
                    jumpahead(g.multiplier, g.increment, g.state, n)
              [] g.cls = "PCG_XSH_RR_V0" ->
                    jumpahead_v0(g.multiplier, g.increment, g.state, n)
              [] g.cls = "PCG_XSL_RR_V0" ->
                    xsl_rr_advance(g.multiplier, g.increment, g.state, n)
    IN  Outcome([g EXCEPT !.state = s], 0, 0, "")

\* A word whose draw also moves the generator to the next sequence.
Next_next_sequence(g) ==
    LET nx == NextOutput(g)
    IN  Outcome([g EXCEPT !.state = nx[2],
                          !.increment = (g.increment + 2) % Modulus],
                nx[1], 1, "")

\* One output word drawn from a generator.
Next_(g) ==
    LET nx == NextOutput(g)
    IN  Outcome([g EXCEPT !.state = nx[2]], nx[1], 1, "")

\* seed(s) with an integer s.  PCG_XSL_RR_V0 inherits PCGCommon.seed, which
\* reads self._state_bits, an attribute the class does not define.
Reseed(g, seed) ==
    CASE g.cls \in CoreClasses ->
            Outcome([g EXCEPT !.state = core_seed(g.multiplier, g.increment, seed)],
                    0, 0, "")
      [] g.cls = "PCG_XSH_RS_V0" -> Outcome(common_seed(g, seed), 0, 0, "")
      [] g.cls = "PCG_XSH_RR_V0" -> Outcome(v0_seed(g, seed), 0, 0, "")
      [] g.cls = "PCG_XSL_RR_V0" -> Outcome(g, 0, 0, "AttributeError")

\* The loop of getrandbits placing each new word above the ones before it.
RECURSIVE getrandbits_loop_le(_, _, _, _)
getrandbits_loop_le(g, numwords, i, acc) ==
    IF i = numwords THEN <<acc, g>>
    ELSE LET nx == NextOutput(g)
         IN  getrandbits_loop_le([g EXCEPT !.state = nx[2]], numwords, i + 1,
                                 Or(acc, Shl(nx[1], OutputBits * i)))

\* The loop of getrandbits: acc = acc << output_bits | next word.
RECURSIVE getrandbits_loop(_, _, _, _)
getrandbits_loop(g, numwords, i, acc) ==
    IF i = numwords THEN <<acc, g>>
    ELSE LET nx == NextOutput(g)
         IN  getrandbits_loop([g EXCEPT !.state = nx[2]], numwords, i + 1,
                              Or(Shl(acc, OutputBits), nx[1]))

\* PCGCommon.getrandbits and PCG_XSH_RR_V0.getrandbits.
getrandbits(g, k) ==
    IF k < 0 THEN Outcome(g, 0, 0, "ValueError")
    ELSE LET numwords == -((-k) \div OutputBits)
             excess_bits == (-k) % OutputBits
             r == getrandbits_loop(g, numwords, 0, 0)
         IN  Outcome(r[2], Shr(r[1], excess_bits), numwords, "")

\* The bits of the numerator of random(): 53 of the 64 bits of two 32-bit
\* words, scaled to the width of the model (all but 3 bits of two words).
MantissaBits == 2 * OutputBits - 3
\* The shifts of PCG_XSH_RR_V0.random: 5 and 6, which drop 64 - 53 bits.
RandomShiftA == (2 * OutputBits - MantissaBits) \div 2
RandomShiftB == 2 * OutputBits - MantissaBits - RandomShiftA

\* random() drawing one bit less than the denominator has.
random_common_short(g) == getrandbits(g, MantissaBits - 1)

\* PCGCommon.random: the outcome's result is the numerator N of the float
\* N / 2**53 (the division of an integer below 2**53 by 2**53 is exact).
random_common(g) == getrandbits(g, MantissaBits)

\* PCG_XSH_RR_V0.random: a = word >> 5, b = word >> 6, (a*2**26 + b) / 2**53;
\* the outcome's result is the numerator a*2**26 + b.
random_v0(g) ==
    LET w1 == NextOutput(g)
        g1 == [g EXCEPT !.state = w1[2]]
        w2 == NextOutput(g1)
        g2 == [g1 EXCEPT !.state = w2[2]]
        a == Shr(w1[1], RandomShiftA)
        b == Shr(w2[1], RandomShiftB)
    IN  Outcome(g2, a * 2 ^ (OutputBits - RandomShiftB) + b, 2, "")

\* random() of a generator of a Random-like class.
RandomOf(g) ==
    IF g.cls = "PCG_XSH_RR_V0" THEN random_v0(g) ELSE random_common(g)

\* The test of _randbelow with "<" for "<=".
below_returns_strict(n, x, h) == (h % n) < x

\* The fold of _randbelow keeping h where the code keeps the remainder r.
below_fold_keep_h(n, x, h, word, bits) == <<Or(Shl(x, bits), word), Shl(h, bits)>>

\* The value returned by _randbelow dividing by n where the code divides by q.
below_result_by_n(n, x, h) == (x - (h % n)) \div n

\* The fold of _randbelow shifting the remainder by one bit less than x.
below_fold_short(n, x, h, word, bits) ==
    <<Or(Shl(x, bits), word), Shl(h % n, bits - 1)>>

\* The pieces of the loop of _randbelow, for words of the given width:
\* q, r = divmod(h, n); the test r <= x; the value (x - r) // q; and
\* x, h = x << output_bits | word, r << output_bits.
below_returns(n, x, h) == (h % n) <= x
below_result(n, x, h) == (x - (h % n)) \div (h \div n)
below_fold(n, x, h, word, bits) == <<Or(Shl(x, bits), word), Shl(h % n, bits)>>

\* The loop of _randbelow on the words of generator g.  The model follows a
\* call for at most MaxDraws words; "Unfinished" marks a call it gave up on.
RECURSIVE randbelow_loop(_, _, _, _, _)
randbelow_loop(g, n, x, h, draws) ==
    IF below_returns(n, x, h) THEN Outcome(g, below_result(n, x, h), draws, "")
    ELSE IF draws = MaxDraws THEN Outcome(g, 0, draws, "Unfinished")
    ELSE LET nx == NextOutput(g)
             xh == below_fold(n, x, h, nx[1], OutputBits)
         IN  randbelow_loop([g EXCEPT !.state = nx[2]], n, xh[1], xh[2], draws + 1)

\* Python's a // b for b # 0: the quotient rounded down.
FloorDiv(a, b) == IF b > 0 THEN a \div b ELSE (-a) \div (-b)

\* _randbelow drawing its first word before the first test.
_randbelow_draw_first(g, n) ==
    LET nx == NextOutput(g)
    IN  randbelow_loop([g EXCEPT !.state = nx[2]], n, nx[1], WordModulus, 1)

\* PCGCommon._randbelow.  There is no test of n: with n = 0 the first
\* divmod(h, n) raises ZeroDivisionError; with n < 0 the first test r <= x is
\* passed by the remainder r = 1 - n * q <= 0 of h = 1, and the call returns
\* (x - r) // q without a word drawn.
_randbelow(g, n) ==
    IF n >= 1 THEN randbelow_loop(g, n, 0, 1, 0)
    ELSE IF n = 0 THEN Outcome(g, 0, 0, "ZeroDivisionError")
    ELSE LET q == FloorDiv(1, n)
             r == 1 - n * q
         IN  IF r <= 0 THEN Outcome(g, FloorDiv(0 - r, q), 0, "")
             ELSE Outcome(g, 0, 0, "Unfinished")

\* PCG_XSH_RR_V0._randbelow
_randbelow_v0(g, n) ==
    IF n <= 0 THEN Outcome(g, 0, 0, "ValueError")
    ELSE randbelow_loop(g, n, 0, 1, 0)

\* _randbelow of a generator of a Random-like class.
RandBelowOf(g, n) ==
    IF g.cls = "PCG_XSH_RR_V0" THEN _randbelow_v0(g, n) ELSE _randbelow(g, n)

\* Python's -(-width // istep) for istep # 0: the ceiling of width / istep.
CeilDiv(width, istep) ==
    IF istep > 0 THEN -((-width) \div istep) ELSE -(width \div (-istep))

\* istart + istep * _randbelow(n).
Ranged(g, istart, istep, n) ==
    LET r == RandBelowOf(g, n)
    IN  Outcome(r.gen, istart + istep * r.result, r.words, r.err)

\* PCGCommon.randrange and PCG_XSH_RR_V0.randrange; stop and step are
\* optional (ostep is the optional step).
randrange(g, start, stop, ostep) ==
    IF stop = None
    THEN IF start > 0 THEN Ranged(g, 0, 1, start)
         ELSE Outcome(g, 0, 0, "ValueError")
    ELSE LET width == stop[1] - start IN
         IF ostep = None
         THEN IF width > 0 THEN Ranged(g, start, 1, width)
              ELSE Outcome(g, 0, 0, "ValueError")
         ELSE IF ostep[1] = 0 THEN Outcome(g, 0, 0, "ValueError")
         ELSE LET n == CeilDiv(width, ostep[1]) IN
              IF n > 0 THEN Ranged(g, start, ostep[1], n)
              ELSE Outcome(g, 0, 0, "ValueError")

\* randint drawing its value before it looks at the width.
randint_draw_first(g, a, b) ==
    LET width == b - a + 1
        r == Ranged(g, a, 1, IF width > 0 THEN width ELSE 1 - width)
    IN  IF width > 0 THEN r ELSE Outcome(r.gen, 0, r.words, "ValueError")

\* PCGCommon.randint (PCG_XSH_RR_V0 inherits random.Random.randint, which is
\* randrange(a, b + 1)).
randint(g, a, b) ==
    LET width == b - a + 1
    IN  IF width > 0 THEN Ranged(g, a, 1, width)
        ELSE Outcome(g, 0, 0, "ValueError")

\* x with the elements at the 0-based positions i and j exchanged.
Swap(x, i, j) ==
    [k \in 1 .. Len(x) |->
        IF k = i + 1 THEN x[j + 1] ELSE IF k = j + 1 THEN x[i + 1] ELSE x[k]]

\* The outcome of a call that changes the list it is given: the value
\* returned and the list after the call.
InPlace(g, value, x, words, err) ==
    Outcome(g, [value |-> value, x |-> x], words, err)

\* PCGCommon.shuffle: the loop for i in reversed(range(n)), from position i
\* down.
RECURSIVE shuffle_loop(_, _, _, _)
shuffle_loop(g, x, i, words) ==
    IF i < 0 THEN InPlace(g, None, x, words, "")
    ELSE LET r == RandBelowOf(g, Len(x) - i)
             j == i + r.result
         IN  IF r.err # "" THEN InPlace(r.gen, None, x, words + r.words, r.err)
             ELSE shuffle_loop(r.gen, IF j > i THEN Swap(x, i, j) ELSE x,
                               i - 1, words + r.words)

\* PCG_XSH_RR_V0.shuffle: the loop draws j and leaves the list as it is.
RECURSIVE shuffle_loop_v0(_, _, _, _)
shuffle_loop_v0(g, x, i, words) ==
    IF i < 0 THEN InPlace(g, None, x, words, "")
    ELSE LET r == RandBelowOf(g, Len(x) - i)
         IN  IF r.err # "" THEN InPlace(r.gen, None, x, words + r.words, r.err)
             ELSE shuffle_loop_v0(r.gen, x, i - 1, words + r.words)

shuffle(g, x) ==
    IF g.cls = "PCG_XSH_RR_V0" THEN shuffle_loop_v0(g, x, Len(x) - 1, 0)
    ELSE shuffle_loop(g, x, Len(x) - 1, 0)

\* The loop of sample forgetting to move the index kept at position j.
RECURSIVE sample_loop_no_move(_, _, _, _, _, _)
sample_loop_no_move(g, n, d, i, words, draws) ==
    IF i < 0 THEN [gen |-> g, d |-> d, words |-> words, draws |-> draws, err |-> ""]
    ELSE CHOOSE l \in
           {LET j == i + r.result
            IN  IF r.err # ""
                THEN [gen |-> r.gen, d |-> d, words |-> words + r.words,
                      draws |-> draws + 1, err |-> r.err]
                ELSE sample_loop_no_move(r.gen, n,
                         [p \in DOMAIN d \cup {j} |-> IF p = j THEN i ELSE d[p]],
                         i - 1, words + r.words, draws + 1)
            : r \in {RandBelowOf(g, n - i)}} : TRUE

\* The loop of sample, for i in reversed(range(k)), from i down: d maps the
\* positions chosen to the places of the result they fill.
\*     j = i + self._randbelow(n - i)
\*     if j in d: d[i] = d[j]
\*     d[j] = i
\* r is the one call of _randbelow made in the iteration.
RECURSIVE sample_loop(_, _, _, _, _, _)
sample_loop(g, n, d, i, words, draws) ==
    IF i < 0 THEN [gen |-> g, d |-> d, words |-> words, draws |-> draws, err |-> ""]
    ELSE CHOOSE l \in
           {LET j == i + r.result
                d1 == IF j \in DOMAIN d
                      THEN [p \in DOMAIN d \cup {i} |->
                               IF p = i THEN d[j] ELSE d[p]]
                      ELSE d
            IN  IF r.err # ""
                THEN [gen |-> r.gen, d |-> d, words |-> words + r.words,
                      draws |-> draws + 1, err |-> r.err]
                ELSE sample_loop(r.gen, n,
                         [p \in DOMAIN d1 \cup {j} |-> IF p = j THEN i ELSE d1[p]],
                         i - 1, words + r.words, draws + 1)
            : r \in {RandBelowOf(g, n - i)}} : TRUE

\* PCGCommon.sample, PCG_XSH_RR_V0.sample and Distributions.sample of a
\* sequence.  An entry of the list returned is Some(element), or None when
\* the loop left it unfilled; `draws` counts the calls of _randbelow.
sample(g, population, k) ==
    LET n == Len(population) IN
    IF ~(0 <= k /\ k <= n)
    THEN Outcome(g, [value |-> <<>>, x |-> population, draws |-> 0], 0,
                 "ValueError")
    ELSE CHOOSE o \in
           {LET result == [i \in 1 .. k |->
                             IF \E j \in DOMAIN l.d : l.d[j] = i - 1
                             THEN Some(population[(CHOOSE j \in DOMAIN l.d :
                                                      l.d[j] = i - 1) + 1])
                             ELSE None]
            IN  Outcome(l.gen, [value |-> result, x |-> population,
                                draws |-> l.draws], l.words, l.err)
            : l \in {sample_loop(g, n, <<>>, k - 1, 0, 0)}} : TRUE

\* The tag of a state container: "name" of the core classes, VERSION of the
\* Random-like classes.
VERSION(cls) ==
    CASE cls \in CoreClasses -> cls
      [] cls = "PCG_XSH_RR_V0" -> "pcgrandom.PCG_XSH_RR_V0"
      [] cls = "PCG_XSH_RS_V0" -> "pcgrandom.PCG_XSH_RS_V0"
      [] cls = "PCG_XSL_RR_V0" -> "pcgrandom.PCG_XSL_RR_V0"

\* The state container of a generator:
\*   the state property of the core classes,
\*       (name, multiplier, increment, state);
\*   PCGCommon.getstate and PCG_XSH_RR_V0.getstate,
\*       (VERSION, (multiplier, increment), state, gauss_next);
\*   PCG_XSL_RR_V0.getstate,
\*       (VERSION, (multiplier, increment, state), distribution state).
getstate(g) ==
    CASE g.cls \in CoreClasses ->
            <<VERSION(g.cls), g.multiplier, g.increment, g.state>>
      [] g.cls \in {"PCG_XSH_RS_V0", "PCG_XSH_RR_V0"} ->
            <<VERSION(g.cls), <<g.multiplier, g.increment>>, g.state, g.gauss_next>>
      [] g.cls = "PCG_XSL_RR_V0" ->
            <<VERSION(g.cls), <<g.multiplier, g.increment, g.state>>,
              _get_distribution_state(g)>>

\* from_state restoring increment and state on a generator that keeps the
\* multiplier it was constructed with.
from_state_keep_multiplier(g, state) ==
    IF state[1] # VERSION(g.cls) THEN Outcome(g, 0, 0, "ValueError")
    ELSE Outcome([cls |-> g.cls, multiplier |-> g.multiplier,
                  increment |-> state[3], state |-> state[4],
                  gauss_next |-> None], 0, 0, "")

\* _pcg_core.from_state on the class of g: a new generator of that class.
\* Unpacking state[1:] into three fields raises ValueError when there are
\* more or fewer.
from_state(g, state) ==
    IF state[1] # VERSION(g.cls) THEN Outcome(g, 0, 0, "ValueError")
    ELSE IF Len(state) # 4 THEN Outcome(g, 0, 0, "ValueError")
    ELSE Outcome([cls |-> g.cls, multiplier |-> state[2], increment |-> state[3],
                  state |-> state[4], gauss_next |-> None], 0, 0, "")

\* setstate comparing the version after it has assigned the fields (the
\* assignments themselves fail on a container of another shape).
setstate_common_late_check(g, state) ==
    LET assigned == [g EXCEPT !.gauss_next = state[4], !.state = state[3],
                              !.multiplier = state[2][1],
                              !.increment = state[2][2]]
    IN  IF state[1] = VERSION(g.cls) THEN Outcome(assigned, 0, 0, "")
        ELSE IF state[1] \in {VERSION("PCG_XSH_RR_V0"), VERSION("PCG_XSH_RS_V0")}
        THEN Outcome(assigned, 0, 0, "ValueError")
        ELSE Outcome(g, 0, 0, "ValueError")

\* setstate restoring the LCG and leaving gauss_next as it is.
setstate_common_keep_gauss(g, state) ==
    IF state[1] # VERSION(g.cls) THEN Outcome(g, 0, 0, "ValueError")
    ELSE Outcome([g EXCEPT !.state = state[3], !.multiplier = state[2][1],
                           !.increment = state[2][2]], 0, 0, "")

\* PCGCommon.setstate and PCG_XSH_RR_V0.setstate.  After the version check,
\*     parameters, state, gauss_next = state[1:]
\* raises ValueError unless the container has four parts; gauss_next and
\* _state are then assigned, and
\*     self._multiplier, self._increment = parameters
\* raises ValueError unless parameters is a pair.
setstate_common(g, state) ==
    IF state[1] # VERSION(g.cls) THEN Outcome(g, 0, 0, "ValueError")
    ELSE IF Len(state) # 4 THEN Outcome(g, 0, 0, "ValueError")
    ELSE LET assigned == [g EXCEPT !.gauss_next = state[4], !.state = state[3]]
         IN  IF Len(state[2]) # 2 THEN Outcome(assigned, 0, 0, "ValueError")
             ELSE Outcome([assigned EXCEPT !.multiplier = state[2][1],
                                           !.increment = state[2][2]],
                          0, 0, "")

\* PCG_XSL_RR_V0.setstate: the container is unpacked into three parts first,
\* and xsl_rr_128_64.from_state unpacks the core state into three before the
\* generator is touched.
setstate_xsl(g, state) ==
    IF Len(state) # 3 THEN Outcome(g, 0, 0, "ValueError")
    ELSE IF state[1] # VERSION(g.cls) THEN Outcome(g, 0, 0, "ValueError")
    ELSE IF Len(state[2]) # 3 THEN Outcome(g, 0, 0, "ValueError")
    ELSE Outcome(_set_distribution_state(
                     [g EXCEPT !.multiplier = state[2][1],
                               !.increment = state[2][2],
                               !.state = state[2][3]], state[3]),
                 0, 0, "")

\* setstate / from_state of a generator of any class.
SetStateOf(g, state) ==
    CASE g.cls \in CoreClasses -> from_state(g, state)
      [] g.cls \in {"PCG_XSH_RS_V0", "PCG_XSH_RR_V0"} -> setstate_common(g, state)
      [] g.cls = "PCG_XSL_RR_V0" -> setstate_xsl(g, state)

\* Distributions.gauss(0.0, 1.0).  The value cos(2*pi*x) * sqrt(-2*log(1-y))
\* of the floats x = N1/2**53, y = N2/2**53 is the term <<"cos", N1, N2>>,
\* and its companion kept in gauss_next the term <<"sin", N1, N2>>.
gauss(g) ==
    IF g.gauss_next # None
    THEN Outcome([g EXCEPT !.gauss_next = None], g.gauss_next[1], 0, "")
    ELSE LET x == RandomOf(g)
             y == RandomOf(x.gen)
         IN  Outcome([y.gen EXCEPT !.gauss_next = Some(<<"sin", x.result, y.result>>)],
                     <<"cos", x.result, y.result>>, x.words + y.words, "")

(***************************************************************************)
(* State.                                                                  *)
(*   gens[i]  the generator instance i                                     *)
(*   args[i]  the (seed, sequence, multiplier) it was constructed from     *)
(*   hist[i]  the calls made on it since, each with the generator before   *)
(*            the call and the call's outcome                              *)
(*   sn, sx, sh, swords, spc, sres                                         *)
(*            one _randbelow(sn) call fed from an arbitrary word stream:   *)
(*            its x and h, the words drawn so far, its position and its    *)
(*            returned value                                               *)
(***************************************************************************)
VARIABLES gens, args, hist, sn, sx, sh, swords, spc, sres

gvars == <<gens, args, hist>>
svars == <<sn, sx, sh, swords, spc, sres>>
vars == <<gens, args, hist, sn, sx, sh, swords, spc, sres>>

\* Arguments offered to the operations.
SeedArgs == (-MaxSeed) .. MaxSeed
SequenceArgs == {None} \cup {Some(q) : q \in 0 .. MaxSequence}
MultiplierArgs == {None} \cup {Some(1 + 4 * k) : k \in 0 .. MaxMultiplierIndex}
JumpArgs == ((-MaxJump) .. MaxJump)
            \cup {HalfPeriod, -HalfPeriod, Modulus - 1, 1 - Modulus,
                  Modulus, -Modulus}

ConstructorArgs(cls) ==
    [seed : SeedArgs, sequence : SequenceArgs,
     multiplier : IF cls = "PCG_XSH_RR_V0" THEN {None} ELSE MultiplierArgs]

\* The sampler variables when no stream-fed call is being followed.
SamplerIdle ==
    /\ sn = 1 /\ sx = 0 /\ sh = 1 /\ swords = <<>> /\ spc = "idle" /\ sres = 0

\* One call recorded in hist.
Call(op, arg, before, out) ==
    [op |-> op, arg |-> arg, before |-> before, result |-> out.result,
     words |-> out.words, err |-> out.err]

\* A call whose new state is kept in the class: every instance of the class
\* of instance i takes it.
Record_class(i, op, arg, out) ==
    /\ gens' = [k \in DOMAIN gens |->
                   IF k = i THEN out.gen
                   ELSE IF gens[k].cls = gens[i].cls
                   THEN [gens[k] EXCEPT !.state = out.gen.state]
                   ELSE gens[k]]
    /\ hist' = [hist EXCEPT ![i] = Append(@, Call(op, arg, gens[i], out))]
    /\ UNCHANGED <<args, svars>>

\* Instance i makes the call op(arg) with outcome out.
Record(i, op, arg, out) ==
    /\ gens' = [gens EXCEPT ![i] = out.gen]
    /\ hist' = [hist EXCEPT ![i] = Append(@, Call(op, arg, gens[i], out))]
    /\ UNCHANGED <<args, svars>>

\* The same, while the instance has made fewer than MaxCalls calls.
Perform(i, op, arg, out) ==
    /\ Len(hist[i]) < MaxCalls
    /\ Record(i, op, arg, out)

\* A word drawn through a counter shared by all instances: each call made on
\* any instance moves the state of this one.
Next_shared(g) ==
    LET nx == NextOutput(g)
        made == UNION {{<<i, p>> : p \in 1 .. Len(hist[i])} : i \in DOMAIN hist}
    IN  Outcome([g EXCEPT !.state = (nx[2] + Cardinality(made)) % Modulus],
                nx[1], 1, "")

NextWord_shared(i) == Perform(i, "next", 0, Next_shared(gens[i]))

\* next(gen) / _next_output() / _next_word()
NextWord(i) == Perform(i, "next", 0, Next_(gens[i]))

\* advance(n) / jumpahead(n)
Advance(i) == \E n \in JumpArgs : Perform(i, "advance", n, Jump(gens[i], n))

\* seed(s)
Seed(i) == \E s \in SeedArgs : Perform(i, "seed", s, Reseed(gens[i], s))

\* getstate() / the state property: reads, changes nothing.
GetState(i) ==
    Perform(i, "getstate", 0, Outcome(gens[i], getstate(gens[i]), 0, ""))

\* One generator of any class, freshly constructed from valid arguments.
Init ==
    /\ \E cls \in Classes : \E a \in ConstructorArgs(cls) :
          /\ Construct(cls, a.seed, a.sequence, a.multiplier).ok
          /\ gens = [i \in {1} |->
                        Construct(cls, a.seed, a.sequence, a.multiplier).gen]
          /\ args = [i \in {1} |-> a]
    /\ hist = [i \in {1} |-> <<>>]
    /\ SamplerIdle

\* Walking the LCG: words, jumps and reads of the state.
Next ==
    \/ NextWord(1)
    \/ Advance(1)
    \/ GetState(1)

Spec == Init /\ [][Next]_vars

\* Reseeding between words.
NextSeed ==
    \/ Seed(1)
    \/ NextWord(1)

SpecSeed == Init /\ [][NextSeed]_vars

\* Two generators of one class, constructed independently of each other.
InitPair ==
    /\ \E cls \in Classes : \E a1 \in ConstructorArgs(cls) :
       \E a2 \in ConstructorArgs(cls) :
          /\ Construct(cls, a1.seed, a1.sequence, a1.multiplier).ok
          /\ Construct(cls, a2.seed, a2.sequence, a2.multiplier).ok
          /\ gens = [i \in {1, 2} |->
                        IF i = 1
                        THEN Construct(cls, a1.seed, a1.sequence, a1.multiplier).gen
                        ELSE Construct(cls, a2.seed, a2.sequence, a2.multiplier).gen]
          /\ args = [i \in {1, 2} |-> IF i = 1 THEN a1 ELSE a2]
    /\ hist = [i \in {1, 2} |-> <<>>]
    /\ SamplerIdle

NextPair ==
    \/ NextWord(1)
    \/ NextWord(2)

SpecPair == InitPair /\ [][NextPair]_vars

\* _randbelow(n) and getrandbits(k) on a generator of a Random-like class.
RandBelow(i) ==
    \E n \in 1 .. MaxN :
        /\ RandBelowOf(gens[i], n).err # "Unfinished"
        /\ Perform(i, "randbelow", n, RandBelowOf(gens[i], n))

GetRandBits(i) ==
    \E k \in 0 .. MaxBits : Perform(i, "getrandbits", k, getrandbits(gens[i], k))

\* One generator of a Random-like class, freshly constructed.
InitDraw ==
    /\ \E cls \in RandomClasses : \E a \in ConstructorArgs(cls) :
          /\ Construct(cls, a.seed, a.sequence, a.multiplier).ok
          /\ gens = [i \in {1} |->
                        Construct(cls, a.seed, a.sequence, a.multiplier).gen]
          /\ args = [i \in {1} |-> a]
    /\ hist = [i \in {1} |-> <<>>]
    /\ SamplerIdle

NextDraw ==
    \/ RandBelow(1)
    \/ GetRandBits(1)
    \/ NextWord(1)

SpecDraw == InitDraw /\ [][NextDraw]_vars

\* random()
RandomFloat(i) == Perform(i, "random", 0, RandomOf(gens[i]))

\* Floats between words.
NextFloat ==
    \/ RandomFloat(1)
    \/ NextWord(1)

SpecFloat == InitDraw /\ [][NextFloat]_vars

\* Constructing generators from arguments of every kind.
SeedObjects == {<<"int", v>> : v \in SeedArgs} \cup {<<"none", 0>>, <<"bad", 0>>}

\* Multipliers given to a constructor: 1 + 4k and the three other residues.
AnyMultiplierArgs ==
    {None} \cup {Some(m) : m \in 0 .. 4 * MaxMultiplierIndex + 3}
                \cup {Some(Modulus + 3), Some(Modulus + 5), Some(-3), Some(-1)}

InitNew ==
    /\ gens = [i \in {1} |-> Unbuilt]
    /\ args = [i \in {1} |-> [seed |-> 0, sequence |-> None, multiplier |-> None]]
    /\ hist = [i \in {1} |-> <<>>]
    /\ SamplerIdle

\* g = cls(seed, sequence, multiplier): on an exception no generator is bound.
New(i) ==
    /\ hist[i] = <<>>
    /\ \E cls \in Classes : \E seedobj \in SeedObjects :
       \E sequence \in SequenceArgs : \E entropy \in 0 .. MaxSeed :
       \E multiplier \in (IF cls = "PCG_XSH_RR_V0" THEN {None} ELSE AnyMultiplierArgs) :
          LET b == NewOf(cls, seedobj, sequence, multiplier, entropy) IN
          /\ gens' = [gens EXCEPT ![i] = b.gen]
          /\ args' = [args EXCEPT ![i] = [seed |-> seedobj, sequence |-> sequence,
                                          multiplier |-> multiplier]]
          /\ hist' = [hist EXCEPT ![i] =
                         <<[op |-> "new", arg |-> cls, before |-> gens[i],
                            result |-> b.steps, words |-> 0, err |-> b.err]>>]
    /\ UNCHANGED svars

\* A word from a generator that has been built.
NewWord(i) ==
    /\ gens[i] # Unbuilt
    /\ Perform(i, "next", 0, Next_(gens[i]))

NextNew ==
    \/ New(1)
    \/ NewWord(1)

SpecNew == InitNew /\ [][NextNew]_vars

\* Seeds of any size.  Two generators of one class with the same sequence and
\* multiplier; the seed of the second, and the seed it is reseeded with, lie
\* up to one modulus away from the seeds of the first.
WideSeeds == {s + k * Modulus : s \in SeedArgs, k \in -1 .. 1}

InitWide ==
    /\ \E cls \in Classes : \E a \in ConstructorArgs(cls) : \E s \in WideSeeds :
          /\ Construct(cls, a.seed, a.sequence, a.multiplier).ok
          /\ gens = [i \in {1, 2} |->
                        IF i = 1
                        THEN Construct(cls, a.seed, a.sequence, a.multiplier).gen
                        ELSE Construct(cls, s, a.sequence, a.multiplier).gen]
          /\ args = [i \in {1, 2} |-> IF i = 1 THEN a ELSE [a EXCEPT !.seed = s]]
    /\ hist = [i \in {1, 2} |-> <<>>]
    /\ SamplerIdle

WideSeed(i) ==
    /\ \A p \in 1 .. Len(hist[i]) : hist[i][p].op = "next"
    /\ \E s \in WideSeeds : Perform(i, "seed", s, Reseed(gens[i], s))

NextWide ==
    \/ WideSeed(2)
    \/ NextWord(2)

SpecWide == InitWide /\ [][NextWide]_vars

\* Ranged draws: one call of randrange, randint or getrandbits with
\* arguments of either sign, after any words.
RangeValues == (-MaxRange) .. MaxRange
OptionalRangeValues == {None} \cup {Some(v) : v \in RangeValues}

OnlyWordsSoFar(i) == \A p \in 1 .. Len(hist[i]) : hist[i][p].op = "next"

RandRange(i) ==
    /\ OnlyWordsSoFar(i)
    /\ \E start \in RangeValues : \E stop \in OptionalRangeValues :
       \E ostep \in OptionalRangeValues :
          /\ stop = None => ostep = None
          /\ randrange(gens[i], start, stop, ostep).err # "Unfinished"
          /\ Perform(i, "randrange", <<start, stop, ostep>>,
                     randrange(gens[i], start, stop, ostep))

RandInt(i) ==
    /\ OnlyWordsSoFar(i)
    /\ \E a \in RangeValues : \E b \in RangeValues :
          /\ randint(gens[i], a, b).err # "Unfinished"
          /\ Perform(i, "randint", <<a, b>>, randint(gens[i], a, b))

SignedRandBits(i) ==
    /\ OnlyWordsSoFar(i)
    /\ \E k \in RangeValues : Perform(i, "getrandbits", k, getrandbits(gens[i], k))

NextRange ==
    \/ RandRange(1)
    \/ RandInt(1)
    \/ SignedRandBits(1)
    \/ NextWord(1)

SpecRange == InitDraw /\ [][NextRange]_vars

\* Every operation that draws words or moves the state, on a generator of any
\* class: one such call after any words.  The core generators have words and
\* jumps only.
FrameAdvance(i) == OnlyWordsSoFar(i) /\ Advance(i)
FrameGetRandBits(i) ==
    gens[i].cls \in RandomClasses /\ OnlyWordsSoFar(i) /\ GetRandBits(i)
FrameRandBelow(i) ==
    gens[i].cls \in RandomClasses /\ OnlyWordsSoFar(i) /\ RandBelow(i)
FrameRandRange(i) == gens[i].cls \in RandomClasses /\ RandRange(i)
FrameRandom(i) ==
    gens[i].cls \in RandomClasses /\ OnlyWordsSoFar(i) /\ RandomFloat(i)

NextFrame ==
    \/ NextWord(1)
    \/ FrameAdvance(1)
    \/ FrameGetRandBits(1)
    \/ FrameRandBelow(1)
    \/ FrameRandRange(1)
    \/ FrameRandom(1)

SpecFrame == Init /\ [][NextFrame]_vars

\* Reseeding a generator that has been used: words, jumps, ranged draws and
\* normal variates, and seed(s) among them.
Gauss(i) ==
    /\ gens[i].cls \in RandomClasses
    /\ Perform(i, "gauss", 0, gauss(gens[i]))

NextReseed ==
    \/ NextWord(1)
    \/ Gauss(1)
    \/ FrameAdvance(1)
    \/ FrameGetRandBits(1)
    \/ FrameRandRange(1)
    \/ Seed(1)

SpecReseed == Init /\ [][NextReseed]_vars

\* Shuffling the lists [1, ..., n] between words.
Lists == {[k \in 1 .. n |-> k] : n \in 0 .. MaxList}

Shuffle(i) ==
    \E x \in Lists :
        /\ shuffle(gens[i], x).err # "Unfinished"
        /\ Perform(i, "shuffle", x, shuffle(gens[i], x))

NextShuffle ==
    \/ Shuffle(1)
    \/ NextWord(1)

SpecShuffle == InitDraw /\ [][NextShuffle]_vars

\* Sampling from the lists [1, ..., n] after any words, with any k from -1 to
\* one more than the longest list.
Sample(i) ==
    \E x \in Lists : \E k \in -1 .. MaxList + 1 :
        /\ OnlyWordsSoFar(i)
        /\ \E o \in {sample(gens[i], x, k)} :
              /\ o.err # "Unfinished"
              /\ Perform(i, "sample", <<x, k>>, o)

NextSample ==
    \/ Sample(1)
    \/ NextWord(1)

SpecSample == InitDraw /\ [][NextSample]_vars

\* Instance i as constructed, before any call.
Alone(i) ==
    Construct(gens[i].cls, args[i].seed, args[i].sequence, args[i].multiplier).gen

\* Restoring from containers that are not what getstate() returns.  c is the
\* container of the generator as constructed; the containers offered are c,
\* c under a tag of no class, c without its last part, c with one part more,
\* and, for the classes whose container nests the parameters, c with the
\* parameters cut short or extended.
Malformed(c, cls) ==
    {c, [c EXCEPT ![1] = "unknown"], SubSeq(c, 1, Len(c) - 1), Append(c, None)}
        \cup (IF cls \in RandomClasses
              THEN {[c EXCEPT ![2] = SubSeq(c[2], 1, Len(c[2]) - 1)],
                    [c EXCEPT ![2] = Append(c[2], 1)]}
              ELSE {})

SetStateMalformed(i) ==
    \E c \in Malformed(getstate(Alone(i)), gens[i].cls) :
        Perform(i, "setstate", c, SetStateOf(gens[i], c))

NextMalformed ==
    \/ NextWord(1)
    \/ Gauss(1)
    \/ SetStateMalformed(1)

SpecMalformed == Init /\ [][NextMalformed]_vars

\* _randbelow called directly, with n of either sign, between words.
DirectRandBelow(i) ==
    \E n \in RangeValues :
        /\ RandBelowOf(gens[i], n).err # "Unfinished"
        /\ Perform(i, "randbelow", n, RandBelowOf(gens[i], n))

NextDirect ==
    \/ DirectRandBelow(1)
    \/ NextWord(1)

SpecDirect == InitDraw /\ [][NextDirect]_vars

\* Saving and restoring the state.  Two generators, the second either of
\* the class of the first or of the class after it in ClassOrder, make
\* MaxStateCalls calls between them.
ClassOrder ==
    <<"xsh_rr_64_32", "xsh_rs_64_32", "xsl_rr_128_64",
      "PCG_XSH_RR_V0", "PCG_XSH_RS_V0", "PCG_XSL_RR_V0">>

OtherClass(cls) ==
    LET k == CHOOSE k \in 1 .. Len(ClassOrder) : ClassOrder[k] = cls
    IN  ClassOrder[(k % Len(ClassOrder)) + 1]

\* The arguments of the two constructions: the first generator takes the
\* defaults, the second any seed, sequence and multiplier.
StateArgs(cls) ==
    [seed : 0 .. MaxSeed, sequence : {None, Some(MaxSequence)},
     multiplier : IF cls = "PCG_XSH_RR_V0" THEN {None}
                  ELSE {None, Some(1 + 4 * MaxMultiplierIndex)}]

InitState ==
    /\ \E c1 \in Classes : \E c2 \in {c1, OtherClass(c1)} :
       \E a2 \in StateArgs(c2) :
          LET a1 == [seed |-> 0, sequence |-> None, multiplier |-> None] IN
          /\ gens = [i \in {1, 2} |->
                        IF i = 1
                        THEN Construct(c1, a1.seed, a1.sequence, a1.multiplier).gen
                        ELSE Construct(c2, a2.seed, a2.sequence, a2.multiplier).gen]
          /\ args = [i \in {1, 2} |-> IF i = 1 THEN a1 ELSE a2]
    /\ hist = [i \in {1, 2} |-> <<>>]
    /\ SamplerIdle

StateCallsLeft == Len(hist[1]) + Len(hist[2]) < MaxStateCalls

\* The containers that getstate() / the state property have returned.
Saved ==
    {hist[j][p].result : <<j, p>> \in
        {jp \in (DOMAIN hist) \X (1 .. MaxStateCalls) :
            /\ jp[2] <= Len(hist[jp[1]])
            /\ hist[jp[1]][jp[2]].op = "getstate"}}

StNext(i) == StateCallsLeft /\ Record(i, "next", 0, Next_(gens[i]))

StGauss(i) ==
    /\ StateCallsLeft
    /\ gens[i].cls \in RandomClasses
    /\ Record(i, "gauss", 0, gauss(gens[i]))

StGetState(i) ==
    /\ StateCallsLeft
    /\ Record(i, "getstate", 0, Outcome(gens[i], getstate(gens[i]), 0, ""))

\* setstate(c) / from_state(c) with a container c saved from either generator.
StSetState(i) ==
    /\ StateCallsLeft
    /\ \E c \in Saved : Record(i, "setstate", c, SetStateOf(gens[i], c))

NextState ==
    \/ \E i \in {1, 2} : StNext(i)
    \/ \E i \in {1, 2} : StGauss(i)
    \/ \E i \in {1, 2} : StGetState(i)
    \/ \E i \in {1, 2} : StSetState(i)

SpecState == InitState /\ [][NextState]_vars

\* Every public operation of one generator, with setstate / from_state given
\* the containers saved so far or containers of the right tag and shape
\* written by hand: a multiplier that is 3 mod 4, an even increment, a state
\* of 2^W.  Words and restores may follow one another MaxStateCalls calls
\* long; the other calls are made once, after words.
Container(cls, m, c, s) ==
    CASE cls \in CoreClasses -> <<VERSION(cls), m, c, s>>
      [] cls \in {"PCG_XSH_RS_V0", "PCG_XSH_RR_V0"} ->
            <<VERSION(cls), <<m, c>>, s, None>>
      [] cls = "PCG_XSL_RR_V0" -> <<VERSION(cls), <<m, c, s>>, None>>

Forged(cls) ==
    {Container(cls, 3, 1, 0), Container(cls, 1, 2, 0), Container(cls, 1, 1, Modulus)}

ParCallsLeft(i) == Len(hist[i]) < MaxStateCalls

ParNext(i) == ParCallsLeft(i) /\ Record(i, "next", 0, Next_(gens[i]))

ParGetState(i) ==
    /\ ParCallsLeft(i)
    /\ OnlyWordsSoFar(i)
    /\ Record(i, "getstate", 0, Outcome(gens[i], getstate(gens[i]), 0, ""))

ParSetState(i) ==
    /\ ParCallsLeft(i)
    /\ \E c \in Saved : Record(i, "setstate", c, SetStateOf(gens[i], c))

ParForge(i) ==
    /\ OnlyWordsSoFar(i)
    /\ \E c \in Forged(gens[i].cls) :
          Perform(i, "setstate", c, SetStateOf(gens[i], c))

ParSeed(i) == OnlyWordsSoFar(i) /\ Seed(i)

NextParameters ==
    \/ ParNext(1)
    \/ ParGetState(1)
    \/ ParSetState(1)
    \/ ParForge(1)
    \/ ParSeed(1)
    \/ FrameAdvance(1)
    \/ FrameGetRandBits(1)
    \/ FrameRandBelow(1)

SpecParameters == Init /\ [][NextParameters]_vars

\* The rotation helpers applied to a word sn and an amount sx.
InitRotate ==
    /\ gens = <<>> /\ args = <<>> /\ hist = <<>>
    /\ sn \in 0 .. WordModulus - 1
    /\ sx \in 0 .. OutputBits - 1
    /\ sh = 1 /\ swords = <<>> /\ spc = "rotate" /\ sres = 0

\* core_generators._rotate32 / _rotate64
Rotate ==
    /\ spc = "rotate"
    /\ spc' = "_rotate"
    /\ sres' = _rotate(sn, sx)
    /\ UNCHANGED <<gvars, sn, sx, sh, swords>>

\* pcg_xsh_rr_v0._rotate32
Rotate32V0 ==
    /\ spc = "rotate"
    /\ spc' = "_rotate32_v0"
    /\ sres' = _rotate32_v0(sn, sx)
    /\ UNCHANGED <<gvars, sn, sx, sh, swords>>

NextRotate ==
    \/ Rotate
    \/ Rotate32V0

SpecRotate == InitRotate /\ [][NextRotate]_vars

\* The output functions applied to a state sn; sx takes the amount that the
\* function reads from the top bits of the state, sres the word.
InitOutput ==
    /\ gens = <<>> /\ args = <<>> /\ hist = <<>>
    /\ sn \in 0 .. Modulus - 1
    /\ sx = 0 /\ sh = 1 /\ swords = <<>> /\ spc = "state" /\ sres = 0

\* xsh_rr_64_32._output
OutputXshRr ==
    /\ spc = "state"
    /\ spc' = "xsh_rr"
    /\ sx' = xsh_rr_rotation(sn)
    /\ sres' = _output("xsh_rr_64_32", sn)
    /\ UNCHANGED <<gvars, sn, sh, swords>>

\* xsh_rs_64_32._output
OutputXshRs ==
    /\ spc = "state"
    /\ spc' = "xsh_rs"
    /\ sx' = xsh_rs_shift(sn)
    /\ sres' = _output("xsh_rs_64_32", sn)
    /\ UNCHANGED <<gvars, sn, sh, swords>>

\* xsl_rr_128_64._output
OutputXslRr ==
    /\ spc = "state"
    /\ spc' = "xsl_rr"
    /\ sx' = xsl_rr_rotation(sn)
    /\ sres' = _output("xsl_rr_128_64", sn)
    /\ UNCHANGED <<gvars, sn, sh, swords>>

\* PCG_XSH_RS_V0._get_output
GetOutputV0 ==
    /\ spc = "state"
    /\ spc' = "xsh_rs_v0"
    /\ sx' = xsh_rs_shift(sn)
    /\ sres' = xsh_rs_next_output(1, 1, sn)[1]
    /\ UNCHANGED <<gvars, sn, sh, swords>>

NextOutputFunction ==
    \/ OutputXshRr
    \/ OutputXshRs
    \/ OutputXslRr
    \/ GetOutputV0

SpecOutput == InitOutput /\ [][NextOutputFunction]_vars

\* One call _randbelow(sn), sn >= 1, on an arbitrary stream of words of
\* SamplerBits bits, followed iteration by iteration.
InitBelow ==
    /\ gens = <<>> /\ args = <<>> /\ hist = <<>>
    /\ sn \in 1 .. MaxN
    /\ sx = 0 /\ sh = 1 /\ swords = <<>> /\ spc = "loop" /\ sres = 0

\* "if r <= x: return (x - r) // q"
BelowReturn ==
    /\ spc = "loop"
    /\ below_returns(sn, sx, sh)
    /\ spc' = "done"
    /\ sres' = below_result(sn, sx, sh)
    /\ UNCHANGED <<gvars, sn, sx, sh, swords>>

\* "x, h = x << output_bits | next word, r << output_bits"
BelowDraw ==
    /\ spc = "loop"
    /\ ~below_returns(sn, sx, sh)
    /\ Len(swords) < MaxDraws
    /\ \E w \in 0 .. 2 ^ SamplerBits - 1 :
          /\ sx' = below_fold(sn, sx, sh, w, SamplerBits)[1]
          /\ sh' = below_fold(sn, sx, sh, w, SamplerBits)[2]
          /\ swords' = Append(swords, w)
    /\ UNCHANGED <<gvars, sn, spc, sres>>

NextBelow ==
    \/ BelowReturn
    \/ BelowDraw

SpecBelow == InitBelow /\ [][NextBelow]_vars

\* The last call made on instance i, and the one before it.
Last(i) == hist[i][Len(hist[i])]
Prev(i) == hist[i][Len(hist[i]) - 1]

\* The reference iteration: the single LCG step applied n times (the first
\* n \div 2 of them, then the rest; the test on mid makes TLC finish the
\* first half before it starts the second, which keeps its stack shallow).
RECURSIVE StepN(_, _, _, _)
StepN(a, c, s, n) ==
    IF n = 0 THEN s
    ELSE IF n = 1 THEN step(a, c, s)
    ELSE LET mid == StepN(a, c, s, n \div 2)
         IN  IF mid >= 0 THEN StepN(a, c, mid, n - n \div 2) ELSE mid

TypeOK ==
    \A i \in DOMAIN gens :
        /\ gens[i].cls \in Classes
        /\ gens[i].state \in 0 .. Modulus - 1

(***************************************************************************)
(* Properties.                                                             *)
(***************************************************************************)
\* Instances that have made at least one call, and at least two.
Called == {i \in DOMAIN gens : Len(hist[i]) >= 1}
CalledTwice == {i \in DOMAIN gens : Len(hist[i]) >= 2}

\* The results of the calls made on instance i, in order.
Words(i) == [p \in 1 .. Len(hist[i]) |-> hist[i][p].result]

C2_AdvanceEqualsSteps ==
    \A i \in Called :
        LET l == Last(i) IN
        (l.op = "advance" /\ l.arg >= 0 /\ l.arg < Modulus /\ l.arg <= MaxRefSteps)
            => gens[i].state = StepN(l.before.multiplier, l.before.increment,
                                     l.before.state, l.arg)

\* A jump of 2^W - 1 steps that changed the state has been made.
C2_Witness ==
    \E i \in Called :
        /\ Last(i).op = "advance" /\ Last(i).arg = Modulus - 1
        /\ Last(i).arg <= MaxRefSteps
        /\ gens[i].state # Last(i).before.state

\* C3: advance(k) followed by advance(-k) restores the state, for positive,
\* zero and negative k; advance(0) leaves the state unchanged; advance(-1)
\* followed by one next_word() restores the state.
C3_AdvanceInvertible ==
    /\ \A i \in Called :
          (Last(i).op = "advance" /\ Last(i).arg = 0)
              => gens[i].state = Last(i).before.state
    /\ \A i \in CalledTwice :
          /\ (Prev(i).op = "advance" /\ Last(i).op = "advance"
                  /\ Last(i).arg = -Prev(i).arg)
                => gens[i].state = Prev(i).before.state
          /\ (Prev(i).op = "advance" /\ Prev(i).arg = -1 /\ Last(i).op = "next")
                => gens[i].state = Prev(i).before.state

\* A jump forward that moved the state has been undone by the opposite jump.
C3_Witness ==
    \E i \in CalledTwice :
        /\ Prev(i).op = "advance" /\ Prev(i).arg = MaxJump
        /\ Last(i).op = "advance" /\ Last(i).arg = -MaxJump
        /\ Last(i).before.state # Prev(i).before.state
        /\ gens[i].state = Prev(i).before.state

\* C4: advance(2^(W-1)) applied twice returns to the starting state, and the
\* state between the two jumps differs from it.
C4_FullPeriod ==
    \A i \in CalledTwice :
        (/\ Prev(i).op = "advance" /\ Prev(i).arg = HalfPeriod
         /\ Last(i).op = "advance" /\ Last(i).arg = HalfPeriod)
            => /\ gens[i].state = Prev(i).before.state
               /\ Last(i).before.state # Prev(i).before.state

\* Two jumps of half the period have been made on a generator of the
\* 128-bit class.
C4_Witness ==
    \E i \in CalledTwice :
        /\ gens[i].cls = "PCG_XSL_RR_V0"
        /\ Prev(i).op = "advance" /\ Prev(i).arg = HalfPeriod
        /\ Last(i).op = "advance" /\ Last(i).arg = HalfPeriod

\* The output permutation of each class, applied to a state.
Permute(cls, state) ==
    CASE cls \in {"xsh_rr_64_32", "PCG_XSH_RR_V0"} -> xsh_rr_output(state)
      [] cls \in {"xsh_rs_64_32", "PCG_XSH_RS_V0"} -> xsh_rs_output(state)
      [] cls \in {"xsl_rr_128_64", "PCG_XSL_RR_V0"} -> xsl_rr_output(state)

\* C5: every next_word() performs exactly one LCG step; for XSH-RR and
\* XSH-RS the word returned is the permutation of the state before the step,
\* for XSL-RR the permutation of the state after it.
C5_OutputStepOrder ==
    \A i \in Called :
        LET l == Last(i)
            b == l.before
        IN  l.op = "next" =>
              /\ gens[i].state = StepN(b.multiplier, b.increment, b.state, 1)
              /\ l.words = 1
              /\ l.result = IF b.cls \in {"xsl_rr_128_64", "PCG_XSL_RR_V0"}
                            THEN Permute(b.cls, gens[i].state)
                            ELSE Permute(b.cls, b.state)

\* A word has been drawn whose value tells the two orders apart.
C5_Witness ==
    \E i \in Called :
        /\ Last(i).op = "next"
        /\ Permute(gens[i].cls, gens[i].state)
              # Permute(gens[i].cls, Last(i).before.state)

\* The closed form of the initial state.
SeedFormula(a, c, iseed) ==
    (MulMask((c + iseed) % Modulus, a) + c) % Modulus

\* C6: after construction, or seed(), with the integer seed iseed the state
\* is (((increment + iseed) mod 2^W) * multiplier + increment) mod 2^W, in
\* every seeding implementation.
C6_SeedingFormula ==
    \A i \in DOMAIN gens :
        LET g == gens[i] IN
        /\ hist[i] = <<>>
              => g.state = SeedFormula(g.multiplier, g.increment, args[i].seed)
        /\ (hist[i] # <<>> /\ Last(i).op = "seed" /\ Last(i).err = "")
              => g.state = SeedFormula(g.multiplier, g.increment, Last(i).arg)

\* A generator that has produced a word has been reseeded with a negative
\* seed.
C6_Witness ==
    \E i \in CalledTwice :
        /\ Prev(i).op = "next"
        /\ Last(i).op = "seed" /\ Last(i).err = "" /\ Last(i).arg < 0
        /\ gens[i].state # Last(i).before.state

\* C7: a generator constructed with sequence = 0 is indistinguishable from
\* one constructed with the sequence omitted (same seed and multiplier): same
\* increment, same getstate() after construction, same words.
C7_SequenceZeroIsDefault ==
    \A i \in DOMAIN gens : \A j \in DOMAIN gens :
        (/\ gens[i].cls = gens[j].cls
         /\ args[i].seed = args[j].seed
         /\ args[i].multiplier = args[j].multiplier
         /\ args[i].sequence = None
         /\ args[j].sequence = Some(0))
            => /\ gens[i].increment = gens[j].increment
               /\ (hist[i] = <<>> /\ hist[j] = <<>>)
                     => getstate(gens[i]) = getstate(gens[j])
               /\ \A p \in 1 .. Len(hist[i]) :
                     p <= Len(hist[j]) => Words(i)[p] = Words(j)[p]

\* The number of streams of exactly m words of SamplerBits bits on which a
\* call of _randbelow(n) that has reached (x, h) returns k.
RECURSIVE CountReturns(_, _, _, _, _)
RECURSIVE CountOverWords(_, _, _, _, _, _)
CountReturns(n, x, h, m, k) ==
    IF below_returns(n, x, h)
    THEN IF m = 0 /\ below_result(n, x, h) = k THEN 1 ELSE 0
    ELSE IF m = 0 THEN 0
    ELSE CountOverWords(n, x, h, m, k, 2 ^ SamplerBits - 1)

CountOverWords(n, x, h, m, k, w) ==
    LET f == below_fold(n, x, h, w, SamplerBits)
        here == CountReturns(n, f[1], f[2], m - 1, k)
    IN  IF w = 0 THEN here
        ELSE here + CountOverWords(n, x, h, m, k, w - 1)

\* CountReturns from the entry of the call, for every n, m and k followed.
ReturnCounts ==
    [n \in 1 .. MaxN |->
        [m \in 0 .. MaxDraws |->
            [k \in 0 .. n - 1 |-> CountReturns(n, 0, 1, m, k)]]]

\* C8: at each iteration of _randbelow(n), n >= 1, 0 <= x < h; the division
\* by q = h // n is reached only with q >= 1; the value returned is k with
\* 0 <= k < n.
C8_SamplerRange ==
    (spc # "idle")
        => /\ 0 <= sx /\ sx < sh
           /\ (spc = "loop" /\ below_returns(sn, sx, sh)) => sh \div sn >= 1
           /\ spc = "done" => (0 <= sres /\ sres < sn)

\* A call with n >= 3 has returned its largest value after at least two words,
\* with a nonzero remainder at the iteration that returned.
C8_Witness ==
    /\ spc = "done"
    /\ sn >= 3
    /\ sres = sn - 1
    /\ Len(swords) >= 2
    /\ sh % sn > 0

\* C9: for every n >= 1 and every number m of words, the number of streams
\* of m words on which _randbelow(n) returns k is the same for every k in
\* 0 .. n-1; the value a followed call returned is one of them.
C9_SamplerUniform ==
    spc = "done"
        => /\ ReturnCounts[sn][Len(swords)][sres] >= 1
           /\ \A k \in 0 .. sn - 1 :
                 ReturnCounts[sn][Len(swords)][k]
                     = ReturnCounts[sn][Len(swords)][sres]

\* A call with n not a power of two has returned after the longest stream
\* followed, on which every value is returned at least twice.
C9_Witness ==
    /\ spc = "done"
    /\ sn \in {3, 5, 6, 7}
    /\ Len(swords) = MaxDraws
    /\ ReturnCounts[sn][MaxDraws][sres] >= 2

\* A call that must draw no word: _randbelow(1) or getrandbits(0).
ZeroDraw(c) ==
    \/ c.op = "randbelow" /\ c.arg = 1
    \/ c.op = "getrandbits" /\ c.arg = 0

\* C10: _randbelow(1) and getrandbits(0) return 0 and consume no word:
\* getstate() is unchanged by the call, and by any number of such calls.
C10_ZeroDraws ==
    \A i \in Called :
        /\ ZeroDraw(Last(i))
              => /\ Last(i).result = 0
                 /\ Last(i).words = 0
                 /\ Last(i).err = ""
                 /\ getstate(gens[i]) = getstate(Last(i).before)
        /\ (\A p \in 1 .. Len(hist[i]) : ZeroDraw(hist[i][p]))
              => getstate(gens[i]) = getstate(hist[i][1].before)

\* _randbelow(1) and then getrandbits(0) have been called on a generator.
C10_Witness ==
    \E i \in CalledTwice :
        /\ Prev(i).op = "randbelow" /\ Prev(i).arg = 1
        /\ Last(i).op = "getrandbits" /\ Last(i).arg = 0
        /\ Last(i).result = 0


\* C11: _randbelow(2^O), O the width of a word, consumes exactly one word on
\* every call, whatever the word, and returns that word unchanged.
C11_WordSizeOneWord ==
    (spc # "idle" /\ sn = 2 ^ SamplerBits)
        => /\ spc = "loop" => (below_returns(sn, sx, sh) <=> Len(swords) = 1)
           /\ spc = "done" => (Len(swords) = 1 /\ sres = swords[1])

\* A call with n = 2^O has returned the largest word.
C11_Witness ==
    /\ spc = "done"
    /\ sn = 2 ^ SamplerBits
    /\ swords = <<2 ^ SamplerBits - 1>>
    /\ sres = 2 ^ SamplerBits - 1

\* The least number m of words of the given width with 2^(bits*m) >= n.
RECURSIVE MinWordsFrom(_, _, _)
MinWordsFrom(n, bits, m) ==
    IF 2 ^ (bits * m) >= n THEN m ELSE MinWordsFrom(n, bits, m + 1)

MinWords(n, bits) == MinWordsFrom(n, bits, 0)

\* C12 as stated: for a given n every call of _randbelow(n) consumes the
\* same, minimal, number of words whatever the values of the words.
C12_FixedWordCount ==
    spc = "done" => Len(swords) = MinWords(sn, SamplerBits)

\* C12 amended: a call of _randbelow(n) never consumes fewer than the least
\* number m0 of words with 2^(O*m0) >= n; it consumes exactly m0 words on
\* every stream when n divides 2^(O*m0); for any other n the number of words
\* depends on the values of the words.
C12_WordCount ==
    LET m0 == MinWords(sn, SamplerBits) IN
    /\ (spc = "loop" /\ Len(swords) < m0) => ~below_returns(sn, sx, sh)
    /\ spc = "done" => Len(swords) >= m0
    /\ (spc = "done" /\ (2 ^ (SamplerBits * m0)) % sn = 0) => Len(swords) = m0

\* A call with n > 1 dividing 2^(O*m0) has returned n - 1 after m0 words.
C12_Witness ==
    /\ spc = "done"
    /\ sn > 1
    /\ (2 ^ (SamplerBits * MinWords(sn, SamplerBits))) % sn = 0
    /\ Len(swords) = MinWords(sn, SamplerBits)
    /\ sres = sn - 1

\* The generator after m words have been drawn from g, and those words.
RECURSIVE AfterWords(_, _)
AfterWords(g, m) ==
    IF m = 0 THEN g
    ELSE AfterWords([g EXCEPT !.state = NextOutput(g)[2]], m - 1)

WordsFrom(g, m) == [j \in 1 .. m |-> NextOutput(AfterWords(g, j - 1))[1]]

\* The integer whose digits in base 2^O are ws, the first the most
\* significant.
RECURSIVE Concat(_)
Concat(ws) ==
    IF ws = <<>> THEN 0
    ELSE ws[Len(ws)] + WordModulus * Concat(SubSeq(ws, 1, Len(ws) - 1))

\* ceil(k / O)
CeilWords(k) == (k + OutputBits - 1) \div OutputBits

\* C13: for every k >= 0, getrandbits(k) consumes exactly ceil(k/O) words and
\* returns their concatenation, first word most significant, shifted right
\* by ceil(k/O)*O - k bits; the result lies in [0, 2^k).
C13_GetRandBits ==
    \A i \in Called :
        LET l == Last(i)
            m == CeilWords(l.arg)
        IN  (l.op = "getrandbits" /\ l.arg >= 0)
                => /\ l.err = ""
                   /\ l.words = m
                   /\ gens[i] = AfterWords(l.before, m)
                   /\ l.result = Concat(WordsFrom(l.before, m))
                                     \div (2 ^ (m * OutputBits - l.arg))
                   /\ 0 <= l.result /\ l.result < 2 ^ l.arg

\* getrandbits(O + 1) has drawn two different words, the first of them not
\* zero, and dropped O - 1 bits.
C13_Witness ==
    \E i \in Called :
        /\ Last(i).op = "getrandbits" /\ Last(i).arg = OutputBits + 1
        /\ Last(i).words = 2
        /\ WordsFrom(Last(i).before, 2)[1] # 0
        /\ WordsFrom(Last(i).before, 2)[1] # WordsFrom(Last(i).before, 2)[2]
        /\ Last(i).result > 0

\* C14 as stated: random() returns N / 2^53 where N is the integer that
\* getrandbits(53) would return from the same state, consuming the same
\* words and leaving the same state; 0 <= N < 2^53.
C14_RandomIsGetRandBits ==
    \A i \in Called :
        LET l == Last(i)
            b == getrandbits(l.before, MantissaBits)
        IN  l.op = "random"
                => /\ l.result = b.result
                   /\ l.words = b.words
                   /\ gens[i] = b.gen
                   /\ 0 <= l.result /\ l.result < 2 ^ MantissaBits

\* C14 amended: random() consumes the ceil(53/O) words getrandbits(53) would
\* consume and leaves the same state, and returns N / 2^53 with
\* 0 <= N < 2^53; N is the integer getrandbits(53) would return in the
\* classes built on PCGCommon, and in PCG_XSH_RR_V0 it is
\* (w1 >> 5) * 2^26 + (w2 >> 6) for the two words w1, w2 drawn.
C14_RandomFloat ==
    \A i \in Called :
        LET l == Last(i)
            m == CeilWords(MantissaBits)
            ws == WordsFrom(l.before, m)
        IN  l.op = "random"
                => /\ l.err = ""
                   /\ l.words = m
                   /\ gens[i] = AfterWords(l.before, m)
                   /\ 0 <= l.result /\ l.result < 2 ^ MantissaBits
                   /\ l.before.cls # "PCG_XSH_RR_V0"
                         => l.result = Concat(ws) \div (2 ^ (m * OutputBits - MantissaBits))
                   /\ l.before.cls = "PCG_XSH_RR_V0"
                         => l.result = (ws[1] \div (2 ^ RandomShiftA))
                                            * (2 ^ (OutputBits - RandomShiftB))
                                        + (ws[2] \div (2 ^ RandomShiftB))

\* random() of a class built on PCGCommon has returned a numerator with its
\* top bit set after another random().
C14_Witness ==
    \E i \in CalledTwice :
        /\ Prev(i).op = "random"
        /\ Last(i).op = "random"
        /\ Last(i).before.cls # "PCG_XSH_RR_V0"
        /\ Last(i).result >= 2 ^ (MantissaBits - 1)

\* The generator instance i is in after its call number p.
After(i, p) == IF p < Len(hist[i]) THEN hist[i][p + 1].before ELSE gens[i]

\* Call q of instance j is a successful setstate / from_state of the
\* container that call p of instance i, a getstate, returned.
Restores(j, q, i, p) ==
    /\ hist[i][p].op = "getstate"
    /\ hist[j][q].op = "setstate"
    /\ hist[j][q].err = ""
    /\ hist[j][q].arg = hist[i][p].result

\* C15: getstate() does not change the generator; setstate(getstate()) is a
\* no-op; and when s = getstate() is taken, any operations are performed and
\* setstate(s) is called, the generator is again as it was at the getstate()
\* (gauss_next included) and the outputs that follow equal those that
\* followed the getstate().
C15_StateRoundTrip ==
    \A i \in DOMAIN gens : \A q \in 1 .. Len(hist[i]) :
        LET c == hist[i][q] IN
        /\ c.op = "getstate" => After(i, q) = c.before
        /\ (c.op = "setstate" /\ c.arg = getstate(c.before))
              => (c.err = "" /\ After(i, q) = c.before)
        /\ \A p \in 1 .. q - 1 :
              Restores(i, q, i, p)
                  => /\ After(i, q) = hist[i][p].before
                     /\ (q < Len(hist[i]) /\ hist[i][q + 1].op = hist[i][p + 1].op
                            /\ hist[i][q + 1].op \in {"next", "gauss"})
                           => hist[i][q + 1].result = hist[i][p + 1].result

\* A generator holding a gauss_next has saved its state, drawn the saved
\* value, and restored the state.
C15_Witness ==
    \E i \in DOMAIN gens :
        /\ Len(hist[i]) = 4
        /\ hist[i][1].op = "gauss"
        /\ hist[i][2].op = "getstate"
        /\ hist[i][3].op = "gauss"
        /\ Restores(i, 4, i, 2)
        /\ hist[i][4].before.gauss_next = None
        /\ gens[i].gauss_next # None

\* C16: setstate, and from_state, given a container whose tag differs from
\* the generator's own raises ValueError and leaves multiplier, increment,
\* state and gauss_next as they were.
C16_TagMismatch ==
    \A i \in DOMAIN gens : \A q \in 1 .. Len(hist[i]) :
        LET c == hist[i][q] IN
        (c.op = "setstate" /\ c.arg[1] # VERSION(c.before.cls))
            => (c.err = "ValueError" /\ After(i, q) = c.before)

\* A generator holding a gauss_next has been given the container of a
\* generator of another class that has advanced.
C16_Witness ==
    \E i \in DOMAIN gens : \E j \in DOMAIN gens :
        /\ Len(hist[i]) = 2 /\ Len(hist[j]) = 2
        /\ hist[j][1].op = "next"
        /\ hist[j][2].op = "getstate"
        /\ hist[i][1].op = "gauss"
        /\ hist[i][2].op = "setstate"
        /\ hist[i][2].arg = hist[j][2].result
        /\ hist[i][2].err = "ValueError"
        /\ gens[i].cls = "PCG_XSH_RS_V0"
        /\ gens[j].cls = "PCG_XSH_RR_V0"

\* C17: two generators of the same class with equal state containers give
\* the same outputs; after g2.setstate(g1.getstate()) g2 gives the outputs g1
\* gave after the getstate(), whatever seed, sequence and multiplier g2 was
\* constructed with.
C17_EqualContainers ==
    \A i \in DOMAIN gens : \A j \in DOMAIN gens :
        /\ (gens[i].cls = gens[j].cls /\ getstate(gens[i]) = getstate(gens[j]))
              => /\ Next_(gens[i]).result = Next_(gens[j]).result
                 /\ getstate(Next_(gens[i]).gen) = getstate(Next_(gens[j]).gen)
        /\ \A p \in 1 .. Len(hist[i]) : \A q \in 1 .. Len(hist[j]) :
              Restores(j, q, i, p)
                  => /\ getstate(After(j, q)) = hist[i][p].result
                     /\ (p < Len(hist[i]) /\ q < Len(hist[j])
                            /\ hist[i][p + 1].op = hist[j][q + 1].op
                            /\ hist[i][p + 1].op \in {"next", "gauss"})
                           => hist[j][q + 1].result = hist[i][p + 1].result

\* A generator constructed with another seed, sequence and multiplier has
\* been given the state of the first and both have then produced a word.
C17_Witness ==
    /\ DOMAIN gens = {1, 2}
    /\ args[2].seed # args[1].seed
    /\ args[2].sequence # args[1].sequence
    /\ args[2].multiplier # args[1].multiplier
    /\ Len(hist[1]) = 2 /\ Len(hist[2]) = 2
    /\ Restores(2, 1, 1, 1)
    /\ hist[1][2].op = "next" /\ hist[2][2].op = "next"
    /\ hist[2][1].before.multiplier # gens[2].multiplier

\* The multiplier a construction was given is of the form 4k + 1 after its
\* reduction modulo 2^W, or was left to its default.
GoodMultiplier(m) == m = None \/ Mask(m[1], StateBits) % 4 = 1

\* The elements of a sequence.
Range(seq) == {seq[k] : k \in 1 .. Len(seq)}

\* C18: construction with a multiplier whose reduction mod 2^W is not
\* congruent to 1 mod 4 raises ValueError before any seed is read or state
\* computed, in every constructor; every multiplier congruent to 1 mod 4 is
\* accepted.
C18_BadMultiplier ==
    \A i \in DOMAIN gens :
        (hist[i] # <<>> /\ hist[i][1].op = "new")
            => LET c == hist[i][1] IN
               /\ ~GoodMultiplier(args[i].multiplier)
                     => /\ c.err = "ValueError"
                        /\ Range(c.result) \cap {"seed", "entropy", "state"} = {}
                        /\ After(i, 1) = Unbuilt
               /\ GoodMultiplier(args[i].multiplier)
                     => /\ c.err # "ValueError"
                        /\ (\/ args[i].seed[1] = "int"
                            \/ args[i].seed[1] = "none" /\ c.arg \in RandomClasses)
                              => (c.err = "" /\ After(i, 1).cls = c.arg)
                        /\ c.err = ""
                              => After(i, 1).multiplier =
                                    (IF args[i].multiplier = None
                                     THEN _default_multiplier(c.arg)
                                     ELSE Mask(args[i].multiplier[1], StateBits))

\* PCG_XSH_RS_V0 has been given the multiplier 2^W + 3 and a seed no seed can
\* be made from.
C18_Witness ==
    \E i \in DOMAIN gens :
        /\ hist[i] # <<>>
        /\ hist[i][1].op = "new" /\ hist[i][1].arg = "PCG_XSH_RS_V0"
        /\ args[i].multiplier = Some(Modulus + 3)
        /\ args[i].seed[1] = "bad"
        /\ hist[i][1].err = "ValueError"

\* The number of values randrange(start, stop, step) / randint(a, b) chooses
\* among, 0 when the range is empty or the step zero.
RangeSize(c) ==
    CASE c.op = "randint" ->
            IF c.arg[2] >= c.arg[1] THEN c.arg[2] - c.arg[1] + 1 ELSE 0
      [] c.op = "randrange" /\ c.arg[2] = None ->
            IF c.arg[1] > 0 THEN c.arg[1] ELSE 0
      [] c.op = "randrange" /\ c.arg[2] # None ->
            Cardinality({v \in RangeValues :
                \E k \in 0 .. 2 * MaxRange :
                    /\ v = c.arg[1] + k * (IF c.arg[3] = None THEN 1 ELSE c.arg[3][1])
                    /\ (IF c.arg[3] # None /\ c.arg[3][1] <= 0
                        THEN c.arg[3][1] < 0 /\ v > c.arg[2][1]
                        ELSE v < c.arg[2][1])})

\* C19: getrandbits(k) with k < 0, randrange(n) with n <= 0, randrange(a, b)
\* with b <= a, randrange with a zero step or an empty stepped range, and
\* randint(a, b) with b < a raise ValueError before any word is consumed:
\* getstate() is unchanged.
C19_RangeErrors ==
    \A i \in Called :
        LET l == Last(i) IN
        (\/ l.op = "getrandbits" /\ l.arg < 0
         \/ l.op \in {"randrange", "randint"} /\ RangeSize(l) = 0)
            => /\ l.err = "ValueError"
               /\ l.words = 0
               /\ getstate(gens[i]) = getstate(l.before)

\* randrange with an empty stepped range has raised after a word was drawn.
C19_Witness ==
    \E i \in CalledTwice :
        /\ Prev(i).op = "next"
        /\ Last(i).op = "randrange"
        /\ Last(i).arg[3] # None /\ Last(i).arg[3][1] < 0
        /\ Last(i).arg[2][1] > Last(i).arg[1]
        /\ Last(i).err = "ValueError"

\* The generators that have just been seeded with an integer: constructed and
\* not used since, or reseeded by their last call.
FreshlySeeded ==
    {i \in DOMAIN gens :
        \/ hist[i] = <<>>
        \/ Last(i).op = "seed" /\ Last(i).err = ""}

SeededWith(i) == IF hist[i] = <<>> THEN args[i].seed ELSE Last(i).arg

\* C20: integer seeds are taken mod 2^W: generators of one class, sequence and
\* multiplier seeded with s, s + 2^W and s - 2^W (s of either sign) have
\* identical getstate().
C20_SeedsModulo ==
    \A i \in FreshlySeeded : \A j \in FreshlySeeded :
        (/\ gens[i].cls = gens[j].cls
         /\ args[i].sequence = args[j].sequence
         /\ args[i].multiplier = args[j].multiplier
         /\ SeededWith(i) - SeededWith(j) \in {0, Modulus, -Modulus})
            => getstate(gens[i]) = getstate(gens[j])

\* A generator with a negative seed s and one reseeded, after a word, with
\* s + 2^W.
C20_Witness ==
    /\ args[1].seed < 0
    /\ Len(hist[2]) = 2
    /\ hist[2][1].op = "next"
    /\ Last(2).op = "seed" /\ Last(2).err = ""
    /\ Last(2).arg = args[1].seed + Modulus
    /\ getstate(gens[2]) # getstate(Last(2).before)

\* C21: no shared state: in every interleaving of the calls made on two
\* instances, each instance produces the words it produces when run alone,
\* from the states it passes through when run alone; a call on one instance
\* never changes the other's (multiplier, increment, state).
C21_NoSharedState ==
    \A i \in DOMAIN gens :
        /\ gens[i] = AfterWords(Alone(i), Len(hist[i]))
        /\ \A p \in 1 .. Len(hist[i]) :
              /\ hist[i][p].before = AfterWords(Alone(i), p - 1)
              /\ hist[i][p].result = WordsFrom(Alone(i), p)[p]

\* Two generators that differ in their arguments have each produced MaxCalls
\* words, and differ in words and state.
C21_Witness ==
    /\ DOMAIN gens = {1, 2}
    /\ args[1] # args[2]
    /\ Len(hist[1]) = MaxCalls /\ Len(hist[2]) = MaxCalls
    /\ Words(1) # Words(2)
    /\ gens[1].state # gens[2].state

\* C22: next_word / step, advance / jumpahead, getrandbits, below / randrange
\* and random change only `state`: multiplier and increment (and the class)
\* after the call equal multiplier and increment before it.
C22_OnlyStateChanges ==
    \A i \in DOMAIN gens : \A p \in 1 .. Len(hist[i]) :
        /\ After(i, p).multiplier = hist[i][p].before.multiplier
        /\ After(i, p).increment = hist[i][p].before.increment
        /\ After(i, p).cls = hist[i][p].before.cls
        /\ hist[i][p].before.multiplier = Alone(i).multiplier
        /\ hist[i][p].before.increment = Alone(i).increment

\* A word, then a jump, a getrandbits, a randrange or a random that moved the
\* state.
C22_Witness ==
    \E i \in CalledTwice :
        /\ Prev(i).op = "next"
        /\ Last(i).op \in {"advance", "getrandbits", "randrange", "random"}
        /\ Last(i).err = ""
        /\ gens[i].state # Last(i).before.state

\* C23: reseeding is history-independent: after any operations on a
\* generator, seed(s) yields the getstate() that seed(s) yields right after
\* construction with the same multiplier and increment, keeps multiplier and
\* increment, and resets gauss_next to None.
C23_ReseedHistoryIndependent ==
    \A i \in Called :
        Last(i).op = "seed"
            => /\ Last(i).err = ""
               /\ getstate(gens[i]) = getstate(Reseed(Alone(i), Last(i).arg).gen)
               /\ gens[i].multiplier = Last(i).before.multiplier
               /\ gens[i].increment = Last(i).before.increment
               /\ gens[i].gauss_next = None

\* The orders of the elements of x.
Orders(x) ==
    {p \in [1 .. Len(x) -> Range(x)] : Range(p) = Range(x)}

\* The orders shuffle(x) leaves x in, over the states of generator g.
ShuffledOrders(g, x) ==
    {shuffle([g EXCEPT !.state = s], x).result.x : s \in 0 .. Modulus - 1}

\* C24: shuffle(x) returns None and rearranges x in place into a permutation
\* of its original elements; for a list of n >= 2 distinct elements every one
\* of the n! orders is produced by some sequence of draws, so the list does
\* not always keep its original order.
C24_Shuffle ==
    \A i \in Called :
        Last(i).op = "shuffle"
            => /\ Last(i).err = ""
               /\ Last(i).result.value = None
               /\ Last(i).result.x \in Orders(Last(i).arg)
               /\ Len(Last(i).arg) >= 2
                     => Orders(Last(i).arg) \subseteq ShuffledOrders(gens[i], Last(i).arg)

\* C25: sample(population, k) with 0 <= k <= len(population) makes exactly k
\* below() draws and returns a list of exactly k entries taken from k pairwise
\* distinct positions of population (no entry is left None), leaving
\* population unchanged; with k < 0 or k > len(population) it raises
\* ValueError before any draw.
C25_Sample ==
    \A i \in Called :
        Last(i).op = "sample"
            => LET population == Last(i).arg[1]
                   k == Last(i).arg[2]
                   res == Last(i).result
               IN  /\ res.x = population
                   /\ IF 0 <= k /\ k <= Len(population)
                      THEN /\ Last(i).err = ""
                           /\ res.draws = k
                           /\ Len(res.value) = k
                           /\ \A p \in 1 .. k :
                                 /\ res.value[p] # None
                                 /\ res.value[p][1] \in Range(population)
                           /\ Cardinality(Range(res.value)) = k
                      ELSE /\ Last(i).err = "ValueError"
                           /\ res.draws = 0
                           /\ Last(i).words = 0
                           /\ gens[i] = Last(i).before

\* A sample of two or more entries whose second draw chose the position the
\* first had chosen: the entries are not in the order of the population.
C25_Witness ==
    \E i \in Called :
        /\ Last(i).op = "sample"
        /\ Last(i).err = ""
        /\ Last(i).arg[2] >= 2
        /\ Last(i).words >= 2
        /\ \E p \in 1 .. Last(i).arg[2] - 1 :
              Last(i).result.value[p][1] > Last(i).result.value[p + 1][1]

\* C26: no partial failure in setstate: any setstate call that raises,
\* whether for a mismatched version tag or for a malformed container (wrong
\* length, parameters that are not a (multiplier, increment) pair), leaves
\* multiplier, increment, state and gauss_next all unchanged.
C26_NoPartialFailure ==
    \A i \in DOMAIN gens : \A p \in 1 .. Len(hist[i]) :
        (hist[i][p].op = "setstate" /\ hist[i][p].err # "")
            => After(i, p) = hist[i][p].before

\* C27: the primitive below(n) (_randbelow) called directly with n <= 0 is
\* rejected with an error before consuming any word: it never returns a value
\* for n = 0 or negative n.
C27_RejectsNonPositive ==
    \A i \in Called :
        (Last(i).op = "randbelow" /\ Last(i).arg <= 0)
            => /\ Last(i).err # ""
               /\ Last(i).words = 0
               /\ gens[i] = Last(i).before

\* The parameter invariant of a generator.
ParametersOK(g) ==
    /\ g.multiplier % 4 = 1
    /\ g.increment % 2 = 1
    /\ g.multiplier \in 0 .. Modulus - 1
    /\ g.increment \in 0 .. Modulus - 1
    /\ g.state \in 0 .. Modulus - 1

\* C28 as stated: in every state reachable by any sequence of public
\* operations, setstate / from_state with any container whose tag matches
\* included, multiplier mod 4 = 1, increment is odd, and
\* 0 <= multiplier, increment, state < 2^W.
C28_AnyContainer == \A i \in DOMAIN gens : ParametersOK(gens[i])

\* The calls of instance i that restored it from a container no getstate()
\* had returned.
ForgedCalls(i) ==
    {p \in 1 .. Len(hist[i]) :
        hist[i][p].op = "setstate" /\ hist[i][p].arg \in Forged(gens[i].cls)}

\* C28: in every state reachable by construction, seed, next_word,
\* getrandbits, below, advance, getstate, and setstate / from_state with
\* containers that getstate() returned, multiplier mod 4 = 1, increment is
\* odd, and 0 <= multiplier, increment, state < 2^W.
C28_ParameterInvariant ==
    \A i \in DOMAIN gens :
        ForgedCalls(i) = {}
            => /\ ParametersOK(gens[i])
               /\ \A p \in 1 .. Len(hist[i]) : ParametersOK(hist[i][p].before)

\* A generator restored, after a word, from the container it had saved.
C28_Witness ==
    \E i \in DOMAIN gens :
        /\ Len(hist[i]) >= 3
        /\ hist[i][1].op = "getstate"
        /\ hist[i][2].op = "next"
        /\ hist[i][3].op = "setstate" /\ hist[i][3].err = ""
        /\ hist[i][3].arg = hist[i][1].result
        /\ After(i, 3).state # hist[i][3].before.state
        /\ ParametersOK(After(i, 3))


\* Bit k of a non-negative integer.
BitOf(x, k) == (x \div (2 ^ k)) % 2

\* "rotr(v, r) = ((v >> r) | (v << (O - r))) mod 2^O"
rotr(v, r) == Mask(Or(Shr(v, r), Shl(v, OutputBits - r)), OutputBits)

\* C29: for every word v in [0, 2^O) and amount r in [0, O), the
\* multiplicative rotation and the legacy shift rotation both return
\* ((v >> r) | (v << (O - r))) mod 2^O, a circular rotation of the O bits of
\* v (bit k of the result is bit (k + r) mod O of v), and r = 0 returns v.
C29_Rotation ==
    (spc \in {"_rotate", "_rotate32_v0"})
        => /\ sres \in 0 .. WordModulus - 1
           /\ sres = rotr(sn, sx)
           /\ \A k \in 0 .. OutputBits - 1 :
                 BitOf(sres, k) = BitOf(sn, (k + sx) % OutputBits)
           /\ sx = 0 => sres = sn

\* A multiplicative rotation that carries a low bit round to the top.
C29_Witness ==
    /\ spc = "_rotate"
    /\ sx = OutputBits - 1
    /\ sn = 1 + WordModulus \div 2
    /\ sres = 3

\* C30: for every state in [0, 2^W) each output function returns a word in
\* [0, 2^O) without a negative shift count, and the amount it reads from the
\* top state bits is in range: a rotation in [0, O) for XSH-RR and XSL-RR,
\* an extra shift in [0, 2^XshRsBits) for XSH-RS.
C30_OutputTotal ==
    (spc \in {"xsh_rr", "xsh_rs", "xsl_rr", "xsh_rs_v0"})
        => /\ sres \in 0 .. WordModulus - 1
           /\ spc \in {"xsh_rr", "xsl_rr"} => sx \in 0 .. OutputBits - 1
           /\ spc \in {"xsh_rs", "xsh_rs_v0"}
                 => /\ sx \in 0 .. 2 ^ XshRsBits - 1
                    /\ XshRsDrop + sx >= 0
           /\ XshRrDrop >= 0 /\ XshRsDrop >= 0

\* The XSH-RS output of the largest state: the largest extra shift.
C30_Witness ==
    /\ spc = "xsh_rs"
    /\ sn = Modulus - 1
    /\ sx = 2 ^ XshRsBits - 1
    /\ sres > 0

=============================================================================
